---- MODULE Spec2Model ----
(***************************************************************************)
(* DevOps Escape Room: the progress store (zustand gameStore), the shared  *)
(* localStorage namespace it auto-saves to, the mission game components    *)
(* that feed it, and the Dockerfile order validator.                       *)
(***************************************************************************)
EXTENDS Integers, Sequences, FiniteSets, TLC

VARIABLES
    \* ---- gameStore (one browser tab) ----
    playerId,       \* GameState.playerId
    difficulty,     \* GameState.difficulty
    player,         \* GameState.player (NoPlayer when null)
    \* ---- localStorage ----
    shared,         \* value under SHARED_STORAGE_KEY: id -> {player, lastUpdate}
    storageOk,      \* FALSE while localStorage throws (unavailable, quota exceeded)
    now,            \* Date.now()
    \* ---- history ----
    lastOp,         \* the store call or handler that ran last
    \* ---- Dockerfile order validation ----
    ordStage,       \* "idle", "picked", "placed", "validated"
    ordPicked,      \* the blocks in the drop slots (NoBlock for an empty slot)
    ordLabels,      \* validation.requiredOrder
    ordPlaced,      \* placedKeyIds
    ordResult,      \* ValidationResult
    \* ---- router and the mounted game component ----
    gamePage,       \* "difficulty", "select", "intro", "game" ("none": no router)
    gameMission,    \* N of /intro/N or /game/N, 0 elsewhere
    gameCompleted,  \* useState gameCompleted
    showQuiz,       \* useState showQuiz
    hasQuiz,        \* mission.quiz && mission.quiz.length > 0 (catalog data)
    verdict,        \* history: per mission, the validator's verdict on the
                    \* submission that last wrote its completed flag
    \* ---- OutageSimulator ----
    timeRemaining,      \* useState timeRemaining
    gamePhase,          \* useState gamePhase
    selectedStrategy,   \* useState selectedStrategy (Null when null)
    strategyExecuting,  \* useState strategyExecuting
    incidents,          \* useState incidents
    intervalClosure,    \* render values the running interval callback closes over
    pendingStrategy,    \* the executeStrategy call in flight and the values it closes over
    \* ---- two player tabs on one localStorage ----
    tabPlayer,      \* per tab: GameState.player
    tabPc,          \* per tab: "idle", or "write" between getItem and setItem
    tabRead,        \* per tab: allPlayers as parsed from getItem
    tabSaved,       \* history: per tab, the player of its latest completed save
    \* ---- PipelineArchitect ----
    pipelineJobs,   \* useState pipelineJobs
    requiredJobs,   \* mission.validation.requiredJobs (catalog data)
    lastValidation, \* useState lastValidation (NoResult when null)
    \* ---- gameStore fields beside the player ----
    completedMissions,  \* GameState.completedMissions
    hintsUsed,          \* GameState.hintsUsed
    timeSpent,          \* GameState.timeSpent
    \* ---- progress tokens ----
    tokenText,      \* what the last generateProgressToken call gave (NoToken before)
    tokenOf,        \* history: the store fields at that call
    tokenData,      \* what the last parseProgressToken call returned
    parsedFrom,     \* history: the token that call was given
    \* ---- InstructorDashboard ----
    dashMounted,    \* the dashboard component is mounted
    autoRefresh,    \* useState autoRefresh
    trackedPlayers, \* useState trackedPlayers (filled by loadPlayers)
    importTokenText,\* useState importTokenText
    dashAlert,      \* text of the last alert()
    pollTimers,     \* ids of the intervals that are set and not cleared
    effectTimer,    \* the interval the pending effect cleanup will clear (0: none)
    nextTimer,      \* the id the next setInterval returns
    sharedKeys,     \* key order of the object stored in the shared item
    addedPlayers,   \* trackedPlayers of the token-form dashboard (handleAddPlayer)
    dashOp,         \* history: the last dashboard step
    \* ---- CSV export ----
    csvData, \* rows built by the last exportProgress (NoExport before)
    \* ---- classify applied to one instruction text ----
    clsBase,  \* history: the instruction the text is a variant of
    clsText,  \* the text handed to classify
    clsCategory, \* what classify returned (Null before the call)
    \* ---- TokenShareReminder ----
    remVisible,  \* useState visible
    remToken,  \* useState token (EmptyText for '')
    remCopied,  \* useState copied
    remTimer,  \* TRUE while the effect's setTimeout is pending
    remCopyTimers,  \* number of pending setCopied(false) timeouts
    remDismissed, \* history: dismissals that hid the reminder
    \* ---- CacheCrash ----
    availableInstructions,  \* useState availableInstructions (ids)
    droppedInstructions,  \* useState droppedInstructions (Null for an empty slot)
    appliedOptimizations,  \* useState appliedOptimizations
    buildTime,  \* useState buildTime
    imageSize, \* useState imageSize
    \* ---- DockerfileJigsaw ----
    availableBlocks,  \* useState availableBlocks (ids)
    droppedBlocks  \* useState droppedBlocks (Null for an empty slot)

storeVars == <<playerId, difficulty, player, shared, storageOk, now, lastOp>>
orderVars == <<ordStage, ordPicked, ordLabels, ordPlaced, ordResult>>

routeVars == <<gamePage, gameMission, gameCompleted, showQuiz, hasQuiz, verdict>>
outageVars == <<timeRemaining, gamePhase, selectedStrategy, strategyExecuting,
                incidents, intervalClosure, pendingStrategy>>
tabVars == <<tabPlayer, tabPc, tabRead, tabSaved>>
pipeVars == <<pipelineJobs, requiredJobs, lastValidation>>
legacyVars == <<completedMissions, hintsUsed, timeSpent>>
tokenVars == <<tokenText, tokenOf, tokenData, parsedFrom>>
dashVars == <<dashMounted, autoRefresh, trackedPlayers, importTokenText, dashAlert,
              pollTimers, effectTimer, nextTimer, sharedKeys, addedPlayers, dashOp>>
exportVars == <<csvData>>
classifyVars == <<clsBase, clsText, clsCategory>>
reminderVars == <<remVisible, remToken, remCopied, remTimer, remCopyTimers, remDismissed>>
cacheVars == <<availableInstructions, droppedInstructions, appliedOptimizations, buildTime, imageSize>>
jigsawVars == <<availableBlocks, droppedBlocks>>

vars == <<storeVars, orderVars, routeVars, outageVars, tabVars, pipeVars, legacyVars, tokenVars, dashVars, exportVars, classifyVars, reminderVars, cacheVars, jigsawVars>>

\* what the actions of each specification leave alone
beyondStore  == <<orderVars, routeVars, outageVars, tabVars, pipeVars, legacyVars, tokenVars, dashVars, exportVars, classifyVars, reminderVars, cacheVars, jigsawVars>>
beyondOrder  == <<storeVars, routeVars, outageVars, tabVars, pipeVars, legacyVars, tokenVars, dashVars, exportVars, classifyVars, reminderVars, cacheVars, jigsawVars>>
beyondGame   == <<orderVars, outageVars, tabVars, pipeVars, legacyVars, tokenVars, dashVars, exportVars, classifyVars, reminderVars, cacheVars, jigsawVars>>
beyondOutage == <<orderVars, tabVars, pipeVars, legacyVars, tokenVars, dashVars, exportVars, classifyVars, reminderVars, cacheVars, jigsawVars>>
beyondTabs   == <<orderVars, routeVars, outageVars, pipeVars, legacyVars, tokenVars, dashVars, exportVars, classifyVars, reminderVars, cacheVars, jigsawVars>>
beyondPipe   == <<orderVars, outageVars, tabVars, legacyVars, tokenVars, dashVars, exportVars, classifyVars, reminderVars, cacheVars, jigsawVars>>
beyondToken  == <<orderVars, routeVars, outageVars, tabVars, pipeVars, dashVars, exportVars, classifyVars, reminderVars, cacheVars, jigsawVars>>
beyondDash   == <<orderVars, routeVars, outageVars, tabVars, pipeVars, legacyVars, tokenVars, exportVars, classifyVars, reminderVars, cacheVars, jigsawVars>>
beyondExport == <<orderVars, routeVars, outageVars, tabVars, pipeVars, legacyVars, tokenVars, dashVars, classifyVars, reminderVars, cacheVars, jigsawVars>>
beyondClassify == <<orderVars, routeVars, outageVars, tabVars, pipeVars, legacyVars, tokenVars, dashVars, exportVars, reminderVars, cacheVars, jigsawVars>>
beyondReminder == <<orderVars, routeVars, outageVars, tabVars, pipeVars, legacyVars, tokenVars, dashVars, exportVars, classifyVars, cacheVars, jigsawVars>>
beyondCache == <<orderVars, routeVars, outageVars, tabVars, pipeVars, legacyVars, tokenVars, dashVars, exportVars, classifyVars, reminderVars, jigsawVars>>
beyondJigsaw == <<orderVars, routeVars, outageVars, tabVars, pipeVars, legacyVars, tokenVars, dashVars, exportVars, classifyVars, reminderVars, cacheVars>>
----------------------------------------------------------------------------
(* Bounds of the model *)

MaxTime == 1            \* timeSpent inputs are 0..MaxTime

(* Program constants *)

MissionCount == 6       \* Math.min(currentMission + 1, 6)

(* Input samples *)

DifficultySamples == {"beginner", "advanced"}
MissionSamples == {1, 2}    \* mission ids of the raw store calls: same id, other id
NameSamples == {"Ada"}
QuizScoreSamples == {80}
HintsSample == 1

(* JavaScript values that are not integers *)

NaN == -1000001         \* 0/0
JsonNull == -1000002    \* what JSON.stringify writes for NaN

NoPlayer == [null |-> TRUE]     \* player: null

----------------------------------------------------------------------------
(* Helpers *)

Min(a, b) == IF a <= b THEN a ELSE b
Max(a, b) == IF a >= b THEN a ELSE b

RECURSIVE SumTimeSpent(_)
SumTimeSpent(progress) ==
    IF progress = <<>> THEN 0
    ELSE Head(progress).timeSpent + SumTimeSpent(Tail(progress))

\* Array.prototype.findIndex: first index whose missionId matches, 0 for -1
FindIndex(progress, missionId) ==
    IF \E i \in DOMAIN progress : progress[i].missionId = missionId
    THEN CHOOSE i \in DOMAIN progress :
            /\ progress[i].missionId = missionId
            /\ \A j \in DOMAIN progress : progress[j].missionId = missionId => i <= j
    ELSE 0

----------------------------------------------------------------------------
(* JSON.stringify followed by JSON.parse, on the values a Player holds:    *)
(* finite numbers, booleans and strings survive; NaN becomes null; a field *)
(* that is absent stays absent.                                            *)

JsonNumber(x) == IF x = NaN THEN JsonNull ELSE x

JsonEntry(e) ==
    [f \in DOMAIN e |->
        IF f \in {"timeSpent", "hintsUsed", "score", "quizScore", "missionId"}
        THEN JsonNumber(e[f]) ELSE e[f]]

JsonPlayer(p) ==
    [p EXCEPT !.progress = [i \in DOMAIN p.progress |-> JsonEntry(p.progress[i])],
              !.totalTimeSpent = JsonNumber(p.totalTimeSpent),
              !.currentMission = JsonNumber(p.currentMission)]

----------------------------------------------------------------------------
(* Shared storage *)

NoPlayers == [x \in {} |-> 0]      \* getItem gives null, parsed as {}

\* allPlayers[player.id] = { player: {...player}, lastUpdate: Date.now() }
StoreInto(allPlayers, p, time) ==
    (p.id :> [player |-> JsonPlayer(p), lastUpdate |-> time]) @@ allPlayers

\* getItem, parse, assign, setItem inside try/catch: a throw leaves the item as it was
savePlayerSkipped(storage, p, time, ok) == storage
savePlayerToSharedStorage(storage, p, time, ok) ==
    IF ok THEN StoreInto(storage, p, time) ELSE storage

\* whether the caller of savePlayerToSharedStorage sees an exception: the
\* catch logs it with console.error and returns
saveThrowsUncaught(ok) == ~ok
saveThrows(ok) == FALSE

----------------------------------------------------------------------------
(* gameStore operations as functions of the state *)

newPlayer(id, name, diff) ==
    [id |-> id, name |-> name, difficulty |-> diff,
     currentMission |-> 1, progress |-> <<>>, totalTimeSpent |-> 0]

DefaultProgress(missionId) ==
    [missionId |-> missionId, completed |-> FALSE, timeSpent |-> 0,
     hintsUsed |-> 0, score |-> 0]

\* existingProgress of updateMissionProgress
ExistingProgress(p, missionId) ==
    IF FindIndex(p.progress, missionId) > 0
    THEN p.progress[FindIndex(p.progress, missionId)]
    ELSE DefaultProgress(missionId)

\* { ...existingProgress, ...progress }
MergeProgressReset(existing, partial) ==
    partial @@ DefaultProgress(existing.missionId)
MergeProgress(existing, partial) == partial @@ existing

\* map-in-place when the entry exists, append otherwise
NewProgressAppend(progress, idx, updated) == Append(progress, updated)
NewProgress(progress, idx, updated) ==
    IF idx > 0
    THEN [i \in DOMAIN progress |-> IF i = idx THEN updated ELSE progress[i]]
    ELSE Append(progress, updated)

\* x || 0 on a number field that may be absent
OrZero(rec, field) ==
    IF field \in DOMAIN rec /\ rec[field] # NaN THEN rec[field] ELSE 0

\* totalTimeSpent after an update
NewTotalTimeReAdd(total, existing, updated, partial) ==
    total + OrZero(partial, "timeSpent")
NewTotalTime(total, existing, updated, partial) ==
    Max(0, total + (OrZero(updated, "timeSpent") - OrZero(existing, "timeSpent")))

updatedPlayerProgress(p, missionId, partial) ==
    LET idx      == FindIndex(p.progress, missionId)
        existing == ExistingProgress(p, missionId)
        updated  == MergeProgress(existing, partial)
    IN  [p EXCEPT !.progress = NewProgress(p.progress, idx, updated),
                  !.totalTimeSpent =
                        NewTotalTime(p.totalTimeSpent, existing, updated, partial)]

NextMissionNoCap(cur) == cur + 1
NextMission(cur) == Min(cur + 1, MissionCount)

updatedPlayerUnlock(p) == [p EXCEPT !.currentMission = NextMission(p.currentMission)]

----------------------------------------------------------------------------
(* Inputs of the raw store calls *)

SubmissionPartials ==
    { [completed |-> c, timeSpent |-> t, hintsUsed |-> HintsSample,
       score |-> IF c THEN 100 ELSE 40] : c \in BOOLEAN, t \in 0..MaxTime }

QuizPartials == { [quizScore |-> q] : q \in QuizScoreSamples }

Partials == SubmissionPartials \cup QuizPartials

----------------------------------------------------------------------------
(* gameStore actions *)

\* the state change of each store call, without the history variable
setDifficulty(d) ==
    /\ difficulty' = d
    /\ UNCHANGED <<playerId, player, shared, storageOk, now>>

createPlayer(name) ==
    LET p == newPlayer(playerId, name, difficulty)
    IN  /\ player' = p
        /\ shared' = savePlayerToSharedStorage(shared, p, now, storageOk)
        /\ UNCHANGED <<playerId, difficulty, storageOk, now>>

updateMissionProgress(missionId, partial) ==
    /\ player # NoPlayer
    /\ LET p == updatedPlayerProgress(player, missionId, partial)
       IN  /\ player' = p
           /\ shared' = savePlayerToSharedStorage(shared, p, now, storageOk)
    /\ UNCHANGED <<playerId, difficulty, storageOk, now>>

unlockNextMission ==
    /\ player # NoPlayer
    /\ LET p == updatedPlayerUnlock(player)
       IN  /\ player' = p
           /\ shared' = savePlayerToSharedStorage(shared, p, now, storageOk)
    /\ UNCHANGED <<playerId, difficulty, storageOk, now>>

\* what the history variable records of an updateMissionProgress call
UpdateKind(missionId, partial) ==
    [op |-> "updateMissionProgress",
     quizOnly |-> DOMAIN partial = {"quizScore"},
     existed |-> FindIndex(player.progress, missionId) > 0,
     threw |-> saveThrows(storageOk)]

SetDifficulty(d) ==
    /\ setDifficulty(d)
    /\ lastOp' = [op |-> "setDifficulty"]
    /\ UNCHANGED beyondStore

CreatePlayer(name) ==
    /\ createPlayer(name)
    /\ lastOp' = [op |-> "createPlayer", existed |-> player # NoPlayer,
                  threw |-> saveThrows(storageOk)]
    /\ UNCHANGED beyondStore

UpdateMissionProgress(missionId, partial) ==
    /\ updateMissionProgress(missionId, partial)
    /\ lastOp' = UpdateKind(missionId, partial)
    /\ UNCHANGED beyondStore

UnlockNextMission ==
    /\ unlockNextMission
    /\ lastOp' = [op |-> "unlockNextMission",
                  atCeiling |-> player.currentMission = MissionCount,
                  threw |-> saveThrows(storageOk)]
    /\ UNCHANGED beyondStore


\* localStorage starts or stops throwing (storage unavailable, quota exceeded)
StorageToggle ==
    /\ storageOk' = ~storageOk
    /\ lastOp' = [op |-> "storage"]
    /\ UNCHANGED <<playerId, difficulty, player, shared, now>>
    /\ UNCHANGED beyondStore
----------------------------------------------------------------------------
(* dockerValidation.ts: classify, mapRequiredOrderToUUID, validateOrder.   *)
(* A string is a sequence of one-character strings.                        *)

MaxLen == 2             \* enumerated block and label sequences have length 0..MaxLen

Null == "null"
Undefined == "undefined"

CATEGORY_UUID ==
    [FROM      |-> "11111111-1111-4111-8111-111111111111",
     WORKDIR   |-> "22222222-2222-4222-8222-222222222222",
     COPY_REQS |-> "33333333-3333-4333-8333-333333333333",
     RUN_PIP   |-> "44444444-4444-4444-8444-444444444444",
     COPY_APP  |-> "55555555-5555-4555-8555-555555555555",
     EXPOSE    |-> "66666666-6666-4666-8666-666666666666",
     CMD       |-> "77777777-7777-4777-8777-777777777777",
     EXTRA     |-> "88888888-8888-4888-8888-888888888888"]

\* the labels of LABEL_BY_UUID / LABEL_TO_UUID
L_FROM ==
    << "F", "R", "O", "M" >>

L_WORKDIR ==
    << "W", "O", "R", "K", "D", "I", "R" >>

L_COPY_REQS ==
    << "C", "O", "P", "Y", " ", "r", "e", "q", "u", "i", "r", "e", "m", "e",
       "n", "t", "s", ".", "t", "x", "t" >>

L_RUN_PIP ==
    << "R", "U", "N", " ", "p", "i", "p", " ", "i", "n", "s", "t", "a", "l",
       "l" >>

L_COPY_APP ==
    << "C", "O", "P", "Y", " ", "." >>

L_EXPOSE ==
    << "E", "X", "P", "O", "S", "E" >>

L_CMD ==
    << "C", "M", "D" >>

L_EXTRA ==
    << "E", "X", "T", "R", "A" >>


L_Unknown ==
    << "U", "n", "k", "n", "o", "w", "n" >>

LABEL_BY_UUID ==
    (CATEGORY_UUID.FROM :> L_FROM) @@ (CATEGORY_UUID.WORKDIR :> L_WORKDIR) @@
    (CATEGORY_UUID.COPY_REQS :> L_COPY_REQS) @@ (CATEGORY_UUID.RUN_PIP :> L_RUN_PIP) @@
    (CATEGORY_UUID.COPY_APP :> L_COPY_APP) @@ (CATEGORY_UUID.EXPOSE :> L_EXPOSE) @@
    (CATEGORY_UUID.CMD :> L_CMD) @@ (CATEGORY_UUID.EXTRA :> L_EXTRA)

\* LABEL_TO_UUID[label] || CATEGORY_UUID.EXTRA
LABEL_TO_UUID(label) ==
    CASE label = L_FROM      -> CATEGORY_UUID.FROM
      [] label = L_WORKDIR   -> CATEGORY_UUID.WORKDIR
      [] label = L_COPY_REQS -> CATEGORY_UUID.COPY_REQS
      [] label = L_RUN_PIP   -> CATEGORY_UUID.RUN_PIP
      [] label = L_COPY_APP  -> CATEGORY_UUID.COPY_APP
      [] label = L_EXPOSE    -> CATEGORY_UUID.EXPOSE
      [] label = L_CMD       -> CATEGORY_UUID.CMD
      [] OTHER               -> CATEGORY_UUID.EXTRA

\* the upper-case prefixes classify tests, in its order
T_FROM ==
    << "F", "R", "O", "M" >>

T_WORKDIR ==
    << "W", "O", "R", "K", "D", "I", "R" >>

T_COPY_REQS ==
    << "C", "O", "P", "Y", " ", "R", "E", "Q", "U", "I", "R", "E", "M", "E",
       "N", "T", "S", ".", "T", "X", "T" >>

T_RUN_PIP ==
    << "R", "U", "N", " ", "P", "I", "P", " ", "I", "N", "S", "T", "A", "L",
       "L" >>

T_COPY_DOT ==
    << "C", "O", "P", "Y", " ", "." >>

T_EXPOSE ==
    << "E", "X", "P", "O", "S", "E" >>

T_CMD ==
    << "C", "M", "D" >>


UpperOf ==
    [a |-> "A", b |-> "B", c |-> "C", d |-> "D", e |-> "E", f |-> "F", g |-> "G",
     h |-> "H", i |-> "I", j |-> "J", k |-> "K", l |-> "L", m |-> "M", n |-> "N",
     o |-> "O", p |-> "P", q |-> "Q", r |-> "R", s |-> "S", t |-> "T", u |-> "U",
     v |-> "V", w |-> "W", x |-> "X", y |-> "Y", z |-> "Z"]

\* String.prototype.toUpperCase
toUpperCaseNone(text) == text
toUpperCase(text) ==
    [i \in DOMAIN text |-> IF text[i] \in DOMAIN UpperOf THEN UpperOf[text[i]] ELSE text[i]]

IsSpace(c) == c \in {" ", "\t", "\n", "\r"}

\* String.prototype.trim
RECURSIVE trimStart(_)
trimStart(text) ==
    IF text # <<>> /\ IsSpace(Head(text)) THEN trimStart(Tail(text)) ELSE text

RECURSIVE trimEnd(_)
trimEnd(text) ==
    IF text # <<>> /\ IsSpace(text[Len(text)])
    THEN trimEnd(SubSeq(text, 1, Len(text) - 1)) ELSE text

trim(text) == trimEnd(trimStart(text))

\* String.prototype.startsWith
startsWith(text, prefix) ==
    /\ Len(text) >= Len(prefix)
    /\ SubSeq(text, 1, Len(prefix)) = prefix

classify(text) ==
    LET t == toUpperCase(trim(text))
    IN  IF startsWith(t, T_FROM) THEN CATEGORY_UUID.FROM
        ELSE IF startsWith(t, T_WORKDIR) THEN CATEGORY_UUID.WORKDIR
        ELSE IF startsWith(t, T_COPY_REQS) THEN CATEGORY_UUID.COPY_REQS
        ELSE IF startsWith(t, T_RUN_PIP) THEN CATEGORY_UUID.RUN_PIP
        ELSE IF startsWith(t, T_COPY_DOT) THEN CATEGORY_UUID.COPY_APP
        ELSE IF startsWith(t, T_EXPOSE) THEN CATEGORY_UUID.EXPOSE
        ELSE IF startsWith(t, T_CMD) THEN CATEGORY_UUID.CMD
        ELSE CATEGORY_UUID.EXTRA

mapRequiredOrderToUUID(requiredOrder) ==
    [i \in DOMAIN requiredOrder |-> LABEL_TO_UUID(trim(requiredOrder[i]))]

\* currentOrder[i]; undefined past the end of the array
At(arr, i) == IF i \in DOMAIN arr THEN arr[i] ELSE Undefined

\* if (placed)
Truthy(x) == x \notin {Null, Undefined, ""}

\* placedKeyIds.every((b) => b !== null)
AllFilled(placedKeyIds) == \A j \in DOMAIN placedKeyIds : placedKeyIds[j] # Null

\* LABEL_BY_UUID[id || ''] || 'Unknown'
LabelOf(id) == IF id \in DOMAIN LABEL_BY_UUID THEN LABEL_BY_UUID[id] ELSE L_Unknown

\* placed === required, inside if (placed)
PositionCorrectAny(placed, required) == Truthy(placed)
PositionCorrect(placed, required) == Truthy(placed) /\ placed = required

\* Math.max(0, Math.min(100, score))
ClampScoreNone(score) == score
ClampScore(score) == Max(0, Min(100, score))

\* the for loop of validateOrder from index i on (1-based)
RECURSIVE ValidateLoop(_, _, _, _)
ValidateLoop(i, requiredOrder, currentOrder, acc) ==
    IF i > Len(requiredOrder) THEN acc
    ELSE LET required == requiredOrder[i]
             placed   == At(currentOrder, i)
         IN  ValidateLoop(i + 1, requiredOrder, currentOrder,
                IF PositionCorrect(placed, required)
                THEN [score |-> acc.score + 20,
                      correctCount |-> acc.correctCount + 1,
                      feedback |-> Append(acc.feedback, [step |-> i, kind |-> "correct"])]
                ELSE IF Truthy(placed)
                THEN [acc EXCEPT !.feedback = Append(@,
                        [step |-> i, kind |-> "expected",
                         expected |-> LabelOf(required), got |-> LabelOf(placed)])]
                ELSE [acc EXCEPT !.feedback = Append(@,
                        [step |-> i, kind |-> "missing", expected |-> LabelOf(required)])])

validateOrder(placedKeyIds, requiredOrderLabels) ==
    LET requiredOrder == mapRequiredOrderToUUID(requiredOrderLabels)
        loop  == ValidateLoop(1, requiredOrder, placedKeyIds,
                              [score |-> 0, correctCount |-> 0, feedback |-> <<>>])
        score == IF AllFilled(placedKeyIds) THEN loop.score + 10 ELSE loop.score
        feedback == IF AllFilled(placedKeyIds)
                    THEN Append(loop.feedback, [kind |-> "allFilled"])
                    ELSE loop.feedback
    IN  [score |-> ClampScore(score),
         correctCount |-> loop.correctCount,
         total |-> Len(requiredOrder),
         feedback |-> feedback,
         success |-> loop.correctCount = Len(requiredOrder) /\ AllFilled(placedKeyIds)]

----------------------------------------------------------------------------
(* Inputs of the validator: the instructions of the passing test, a block  *)
(* that matches no category, and an empty slot.                            *)

I_FROM ==
    << "F", "R", "O", "M", " ", "p", "y", "t", "h", "o", "n", ":", "3", ".",
       "1", "2", "-", "s", "l", "i", "m" >>

I_WORKDIR ==
    << "W", "O", "R", "K", "D", "I", "R", " ", "/", "a", "p", "p" >>

I_COPY_REQS ==
    << "C", "O", "P", "Y", " ", "r", "e", "q", "u", "i", "r", "e", "m", "e",
       "n", "t", "s", ".", "t", "x", "t", " ", "." >>

I_RUN_PIP ==
    << "R", "U", "N", " ", "p", "i", "p", " ", "i", "n", "s", "t", "a", "l",
       "l", " ", "-", "-", "n", "o", "-", "c", "a", "c", "h", "e", "-", "d",
       "i", "r", " ", "-", "r", " ", "r", "e", "q", "u", "i", "r", "e", "m",
       "e", "n", "t", "s", ".", "t", "x", "t" >>

I_COPY_APP ==
    << "C", "O", "P", "Y", " ", ".", " ", "." >>

I_EXPOSE ==
    << "E", "X", "P", "O", "S", "E", " ", "8", "0", "0", "0" >>

I_CMD ==
    << "C", "M", "D", " ", "[", "\"", "p", "y", "t", "h", "o", "n", "\"", ",",
       " ", "\"", "a", "p", "p", ".", "p", "y", "\"", "]" >>

I_OTHER ==
    << " ", " ", "r", "u", "n", " ", "a", "p", "t", "-", "g", "e", "t", " ",
       "u", "p", "d", "a", "t", "e", " " >>


L_WORKDIR_padded ==
    << " ", "W", "O", "R", "K", "D", "I", "R", " " >>

Block(content) == [block |-> TRUE, content |-> content]
NoBlock == [block |-> FALSE]

\* block ? block.keyId : null, with keyId: classify(content)
KeyIdOf(b) == IF b.block THEN classify(b.content) ELSE Null

CanonicalPicked ==
    << Block(I_FROM), Block(I_WORKDIR), Block(I_COPY_REQS), Block(I_RUN_PIP),
       Block(I_COPY_APP), Block(I_EXPOSE), Block(I_CMD) >>

\* the canonical order with its first two entries swapped
SwappedPicked ==
    << Block(I_WORKDIR), Block(I_FROM), Block(I_COPY_REQS), Block(I_RUN_PIP),
       Block(I_COPY_APP), Block(I_EXPOSE), Block(I_CMD) >>

\* validation.requiredOrder of mission 1
Mission1RequiredOrder ==
    << L_FROM, L_WORKDIR, L_COPY_REQS, L_RUN_PIP, L_COPY_APP, L_EXPOSE, L_CMD >>

SeqsUpTo(S, n) == UNION { [1..k -> S] : k \in 0..n }

BlockSamples == { Block(I_FROM), Block(I_WORKDIR), Block(I_COPY_APP), Block(I_OTHER), NoBlock }

PickedInputs ==
    SeqsUpTo(BlockSamples, MaxLen) \cup
    { CanonicalPicked, SwappedPicked,
      Append(CanonicalPicked, NoBlock),
      Append(CanonicalPicked, Block(I_OTHER)),
      [CanonicalPicked EXCEPT ![3] = NoBlock],
      SubSeq(CanonicalPicked, 1, 6) }

LabelSamples == { L_FROM, L_WORKDIR_padded, L_EXTRA }

LabelInputs == SeqsUpTo(LabelSamples, MaxLen) \cup { Mission1RequiredOrder }

NoResult == [none |-> TRUE]

OrderIdle ==
    /\ ordStage = "idle"
    /\ ordPicked = <<>>
    /\ ordLabels = <<>>
    /\ ordPlaced = <<>>
    /\ ordResult = NoResult

OrderInit ==
    /\ ordStage = "picked"
    /\ ordPicked \in PickedInputs
    /\ ordLabels \in LabelInputs
    /\ ordPlaced = <<>>
    /\ ordResult = NoResult

\* the blocks get their keyId
ClassifyBlocks ==
    /\ ordStage = "picked"
    /\ ordPlaced' = [i \in DOMAIN ordPicked |-> KeyIdOf(ordPicked[i])]
    /\ ordStage' = "placed"
    /\ UNCHANGED <<ordPicked, ordLabels, ordResult>>
    /\ UNCHANGED beyondOrder

ValidateOrder ==
    /\ ordStage = "placed"
    /\ ordResult' = validateOrder(ordPlaced, ordLabels)
    /\ ordStage' = "validated"
    /\ UNCHANGED <<ordPicked, ordLabels, ordPlaced>>
    /\ UNCHANGED beyondOrder

----------------------------------------------------------------------------
(* classify applied to variants of the instructions *)

I_COPY_DOT ==
    << "C", "O", "P", "Y", " ", "." >>

Instructions ==
    [FROM |-> I_FROM, WORKDIR |-> I_WORKDIR, COPY_REQS |-> I_COPY_REQS,
     RUN_PIP |-> I_RUN_PIP, COPY_APP |-> I_COPY_APP, COPY_DOT |-> I_COPY_DOT,
     EXPOSE |-> I_EXPOSE, CMD |-> I_CMD, EXTRA |-> I_OTHER]

\* String.prototype.toLowerCase on the letters
LowerOf(c) ==
    IF \E k \in DOMAIN UpperOf : UpperOf[k] = c
    THEN CHOOSE k \in DOMAIN UpperOf : UpperOf[k] = c
    ELSE c

lowerCased(text) == [i \in DOMAIN text |-> LowerOf(text[i])]

\* every second character in the other case
mixedCased(text) ==
    [i \in DOMAIN text |-> IF i % 2 = 0 THEN LowerOf(text[i])
                           ELSE IF text[i] \in DOMAIN UpperOf THEN UpperOf[text[i]]
                           ELSE text[i]]

Casings(text) == {text, lowerCased(text), mixedCased(text)}

Paddings(text) ==
    {text, <<" ">> \o text, text \o <<"\t", "\n">>, <<" ", " ">> \o text \o <<" ">>}

Variants(text) == UNION { Paddings(c) : c \in Casings(text) }

ClassifyText ==
    /\ clsCategory = Null
    /\ clsCategory' = classify(clsText)
    /\ UNCHANGED <<clsBase, clsText, storeVars>>
    /\ UNCHANGED beyondClassify

ClassifyInit ==
    /\ clsBase \in DOMAIN Instructions
    /\ clsText \in Variants(Instructions[clsBase])
    /\ clsCategory = Null

ClassifyIdle ==
    /\ clsBase = "none"
    /\ clsText = <<>>
    /\ clsCategory = Null
----------------------------------------------------------------------------
(* Store calls made by a handler, in sequence, on a store value            *)
(* [player, shared]                                                        *)

StoreNow == [player |-> player, shared |-> shared]

ThenUpdate(st, missionId, partial, time) ==
    LET p == updatedPlayerProgress(st.player, missionId, partial)
    IN  [player |-> p,
         shared |-> savePlayerToSharedStorage(st.shared, p, time, storageOk)]

ThenUnlock(st, time) ==
    LET p == updatedPlayerUnlock(st.player)
    IN  [player |-> p,
         shared |-> savePlayerToSharedStorage(st.shared, p, time, storageOk)]

ThenUnlockIf(cond, st, time) == IF cond THEN ThenUnlock(st, time) ELSE st

NoVerdicts == [m \in 1..MissionCount |-> "none"]

VerdictOf(success) == IF success THEN "success" ELSE "failure"

----------------------------------------------------------------------------
(* Navigation: DifficultySelector, MissionSelect, IntroScreen              *)

GameMissions == {1, 2}      \* the missions whose game component is played here

\* the quiz screen replaces the game screen while showQuiz and the mission has a quiz
QuizShown == showQuiz /\ hasQuiz

HasCompleted(p, missionId) ==
    \E i \in DOMAIN p.progress :
        p.progress[i].missionId = missionId /\ p.progress[i].completed

getMissionStatus(p, missionId) ==
    IF HasCompleted(p, missionId) THEN "completed"
    ELSE IF missionId <= p.currentMission THEN "unlocked"
    ELSE "locked"

Unmounted ==
    /\ gameCompleted' = FALSE
    /\ showQuiz' = FALSE

\* what is typed into the name field, as sequences of characters
StartNames == { <<"A", "d", "a">>, <<" ", "A", "d", "a">>, <<" ">>, <<>> }

\* the application shows /difficulty again (the route is always reachable)
OpenDifficulty ==
    /\ gamePage = "select"
    /\ gamePage' = "difficulty"
    /\ lastOp' = [op |-> "openDifficulty"]
    /\ UNCHANGED <<playerId, difficulty, player, shared, storageOk, now, gameMission,
                   gameCompleted, showQuiz, hasQuiz, verdict>>
    /\ UNCHANGED beyondGame

\* DifficultySelector.handleStartGame: returns at once on a blank name
HandleStartGame(playerName, d) ==
    /\ gamePage = "difficulty"
    /\ trim(playerName) # <<>>
    /\ difficulty' = d
    /\ player' = newPlayer(playerId, trim(playerName), d)
    /\ shared' = savePlayerToSharedStorage(shared, newPlayer(playerId, trim(playerName), d),
                                          now, storageOk)
    /\ gamePage' = "select"
    /\ lastOp' = [op |-> "handleStartGame"]
    /\ UNCHANGED <<playerId, storageOk, now, gameMission, gameCompleted, showQuiz,
                   hasQuiz, verdict>>
    /\ UNCHANGED beyondGame

HandleMissionClick(missionId) ==
    /\ gamePage = "select"
    /\ getMissionStatus(player, missionId) # "locked"
    /\ gamePage' = "intro"
    /\ gameMission' = missionId
    /\ lastOp' = [op |-> "handleMissionClick"]
    /\ UNCHANGED <<playerId, difficulty, player, shared, storageOk, now,
                   gameCompleted, showQuiz, hasQuiz, verdict>>
    /\ UNCHANGED beyondGame

\* IntroScreen.handleStartGame: the game component mounts
IntroStartGame ==
    /\ gamePage = "intro"
    /\ gamePage' = "game"
    /\ Unmounted
    /\ lastOp' = [op |-> "introStartGame"]
    /\ UNCHANGED <<playerId, difficulty, player, shared, storageOk, now,
                   gameMission, hasQuiz, verdict>>
    /\ UNCHANGED beyondGame

\* handleNextMission / handleGoHome of a game component, IntroScreen's way back
NavigateHome ==
    /\ gamePage \in {"intro", "game"}
    /\ ~QuizShown
    /\ gamePage' = "select"
    /\ gameMission' = 0
    /\ Unmounted
    /\ lastOp' = [op |-> "navigateHome"]
    /\ UNCHANGED <<playerId, difficulty, player, shared, storageOk, now, hasQuiz, verdict>>
    /\ UNCHANGED beyondGame

----------------------------------------------------------------------------
(* Mission 1: DockerfileJigsaw.handleSubmit                                *)

JigsawSubmissions == { CanonicalPicked, SwappedPicked }

JigsawSubmit(dropped, t) ==
    /\ gamePage = "game" /\ gameMission = 1 /\ ~gameCompleted
    /\ LET validation == validateOrder([i \in DOMAIN dropped |-> KeyIdOf(dropped[i])],
                                       Mission1RequiredOrder)
           st == ThenUnlockIf(validation.success,
                    ThenUpdate(StoreNow, 1,
                        [completed |-> validation.success, timeSpent |-> t,
                         hintsUsed |-> 0, score |-> validation.score], now), now)
       IN  /\ player' = st.player
           /\ shared' = st.shared
           /\ verdict' = [verdict EXCEPT ![1] = VerdictOf(validation.success)]
           /\ lastOp' = [op |-> "jigsawSubmit", success |-> validation.success]
    /\ gameCompleted' = TRUE
    /\ UNCHANGED <<playerId, difficulty, storageOk, now, gamePage, gameMission,
                   showQuiz, hasQuiz>>
    /\ UNCHANGED beyondGame

----------------------------------------------------------------------------
(* Mission 2: CacheCrash.handleSubmit and its quiz handlers                *)

\* results of validateOptimization, taken as the handler's input
ValidationSamples == { [success |-> TRUE, score |-> 100], [success |-> FALSE, score |-> 40] }

CacheCrashSubmit(validation, t) ==
    /\ gamePage = "game" /\ gameMission = 2 /\ ~gameCompleted /\ ~QuizShown
    /\ LET st == ThenUnlockIf(validation.success /\ ~hasQuiz,
                    ThenUpdate(StoreNow, 2,
                        [completed |-> validation.success, timeSpent |-> t,
                         hintsUsed |-> 0, score |-> validation.score], now), now)
       IN  /\ player' = st.player
           /\ shared' = st.shared
    /\ verdict' = [verdict EXCEPT ![2] = VerdictOf(validation.success)]
    /\ gameCompleted' = TRUE
    /\ showQuiz' = IF validation.success /\ hasQuiz THEN TRUE ELSE showQuiz
    /\ lastOp' = [op |-> "cacheCrashSubmit", success |-> validation.success]
    /\ UNCHANGED <<playerId, difficulty, storageOk, now, gamePage, gameMission, hasQuiz>>
    /\ UNCHANGED beyondGame

CacheCrashQuizComplete(quizScore) ==
    /\ gamePage = "game" /\ gameMission = 2 /\ QuizShown
    /\ LET st == ThenUnlock(ThenUpdate(StoreNow, 2, [quizScore |-> quizScore], now), now)
       IN  /\ player' = st.player
           /\ shared' = st.shared
    /\ showQuiz' = FALSE
    /\ lastOp' = [op |-> "cacheCrashQuizComplete"]
    /\ UNCHANGED <<playerId, difficulty, storageOk, now, gamePage, gameMission,
                   gameCompleted, hasQuiz, verdict>>
    /\ UNCHANGED beyondGame

CacheCrashQuizSkip ==
    /\ gamePage = "game" /\ gameMission = 2 /\ QuizShown
    /\ showQuiz' = FALSE
    /\ lastOp' = [op |-> "cacheCrashQuizSkip"]
    /\ UNCHANGED <<playerId, difficulty, player, shared, storageOk, now, gamePage,
                   gameMission, gameCompleted, hasQuiz, verdict>>
    /\ UNCHANGED beyondGame

----------------------------------------------------------------------------
(* The game routes opened by their address, and mission 4                  *)

RouteMissions == {1, 4}

\* <Route path="/game/N">: the element mounts for whoever opens the address;
\* no route and no game component reads player.currentMission
OpenGameRoute(missionId) ==
    /\ gamePage \in {"select", "intro", "game"}
    /\ ~QuizShown
    /\ gamePage' = "game"
    /\ gameMission' = missionId
    /\ Unmounted
    /\ lastOp' = [op |-> "openGameRoute"]
    /\ UNCHANGED <<playerId, difficulty, player, shared, storageOk, now, hasQuiz, verdict>>
    /\ UNCHANGED beyondGame

\* results of validateDetection, taken as the handler's input
DetectionSamples ==
    { [allErrorsFixed |-> TRUE, score |-> 100], [allErrorsFixed |-> FALSE, score |-> 40] }

\* LogDetective.handleSubmit
LogDetectiveSubmit(validation, t) ==
    /\ gamePage = "game" /\ gameMission = 4 /\ ~gameCompleted
    /\ LET st == ThenUnlockIf(validation.allErrorsFixed,
                    ThenUpdate(StoreNow, 4,
                        [completed |-> validation.allErrorsFixed, timeSpent |-> t,
                         hintsUsed |-> 0, score |-> validation.score], now), now)
       IN  /\ player' = st.player
           /\ shared' = st.shared
    /\ verdict' = [verdict EXCEPT ![4] = VerdictOf(validation.allErrorsFixed)]
    /\ gameCompleted' = TRUE
    /\ lastOp' = [op |-> "logDetectiveSubmit", success |-> validation.allErrorsFixed]
    /\ UNCHANGED <<playerId, difficulty, storageOk, now, gamePage, gameMission,
                   showQuiz, hasQuiz>>
    /\ UNCHANGED beyondGame

RouteIdle ==
    /\ gamePage = "none"
    /\ gameMission = 0
    /\ gameCompleted = FALSE
    /\ showQuiz = FALSE
    /\ hasQuiz = FALSE
    /\ verdict = NoVerdicts

\* the application opened on /difficulty with no player yet
RouteInit ==
    /\ gamePage = "difficulty"
    /\ gameMission = 0
    /\ gameCompleted = FALSE
    /\ showQuiz = FALSE
    /\ hasQuiz \in BOOLEAN
    /\ verdict = NoVerdicts

----------------------------------------------------------------------------
(* Mission 6: OutageSimulator                                              *)

TickStep == 60          \* interval firings folded into one Tick step (seconds)
MaxClock == 360         \* Date.now() - startTime stops growing here (seconds)

GameSeconds == 300      \* useState(300)

strategies ==
    [Rollback |-> [name |-> "Rollback", timeToExecute |-> 5, risk |-> "low",    effectiveness |-> 90],
     Hotfix   |-> [name |-> "Hotfix",   timeToExecute |-> 2, risk |-> "high",   effectiveness |-> 70],
     Redeploy |-> [name |-> "Redeploy", timeToExecute |-> 8, risk |-> "medium", effectiveness |-> 85],
     ScaleUp  |-> [name |-> "Scale Up", timeToExecute |-> 3, risk |-> "low",    effectiveness |-> 60]]

StrategyNames == DOMAIN strategies

\* number arithmetic with NaN
Plus(a, b) == IF a = NaN \/ b = NaN THEN NaN ELSE a + b
MathMin(a, b) == IF a = NaN \/ b = NaN THEN NaN ELSE Min(a, b)
AtLeast(a, b) == a # NaN /\ a >= b

\* responseTime = (300 - timeRemaining) / 60 minutes, tiered at 2 and 4
ResponsePoints(remaining) ==
    IF GameSeconds - remaining < 2 * 60 THEN 30
    ELSE IF GameSeconds - remaining < 4 * 60 THEN 20
    ELSE 10

RiskPoints(s) ==
    IF strategies[s].risk = "low" THEN 25
    ELSE IF strategies[s].risk = "medium" THEN 15
    ELSE 5

ExecutionPoints(s) ==
    IF strategies[s].timeToExecute < 5 THEN 20
    ELSE IF strategies[s].timeToExecute < 10 THEN 15
    ELSE 10

StrategyPoints(s) == IF s = Null THEN 0 ELSE RiskPoints(s) + ExecutionPoints(s)

ResolvedCount(incs) == Cardinality({ i \in DOMAIN incs : incs[i].resolved })

\* (resolvedIncidents / incidents.length) * 25; 0 / 0 is NaN.  The incidents
\* are all resolved or all unresolved, so the quotient is exact.
ResolvedPoints(incs) ==
    IF Len(incs) = 0 THEN NaN ELSE (ResolvedCount(incs) * 25) \div Len(incs)

\* validateResponse over the render values c its caller closes over
validateResponse(c) ==
    [score |-> MathMin(Plus(ResponsePoints(c.timeRemaining) + StrategyPoints(c.selectedStrategy),
                            ResolvedPoints(c.incidents)), 100)]

\* validation.score >= 70
MeetsThreshold(validation) == AtLeast(validation.score, 70)

\* the render values a callback created now closes over
RenderValues(phase, remaining, strategy, incs) ==
    [gamePhase |-> phase, timeRemaining |-> remaining,
     selectedStrategy |-> strategy, incidents |-> incs]

NoPending == [stage |-> "none"]

OutageMounted == gamePage = "game" /\ gameMission = 6

OutageMainScreen == OutageMounted /\ ~QuizShown /\ ~gameCompleted

ClockAfterTick == Min(now + TickStep * 1000, MaxClock * 1000)

\* the store after handleGameEnd ran with validation at time
handleGameEndStore(validation, time) ==
    ThenUnlockIf(MeetsThreshold(validation) /\ ~hasQuiz,
        ThenUpdate(StoreNow, 6,
            [completed |-> MeetsThreshold(validation), timeSpent |-> time,
             hintsUsed |-> 0, score |-> validation.score], time), time)

\* the interval callback: the timeRemaining updater (handleGameEnd at 0),
\* then triggerIncident with probability 0.1 while monitoring
Tick(trigger) ==
    /\ OutageMounted
    /\ LET ended      == timeRemaining <= 0
           remaining  == IF ended THEN 0 ELSE timeRemaining - TickStep
           validation == validateResponse(intervalClosure)
           st         == IF ended THEN handleGameEndStore(validation, ClockAfterTick)
                         ELSE StoreNow
           fires      == trigger /\ intervalClosure.gamePhase = "monitoring"
           incs       == IF fires THEN Append(incidents, [resolved |-> FALSE]) ELSE incidents
       IN  /\ timeRemaining' = remaining
           /\ player' = st.player
           /\ shared' = st.shared
           /\ gameCompleted' = (ended \/ gameCompleted)
           /\ showQuiz' = IF ended /\ MeetsThreshold(validation) /\ hasQuiz THEN TRUE ELSE showQuiz
           /\ verdict' = IF ended
                         THEN [verdict EXCEPT ![6] = VerdictOf(MeetsThreshold(validation))]
                         ELSE verdict
           /\ incidents' = incs
           /\ gamePhase' = IF fires THEN "incident" ELSE gamePhase
           /\ intervalClosure' =
                 IF fires THEN RenderValues("incident", remaining, selectedStrategy, incs)
                 ELSE intervalClosure
           /\ lastOp' = [op |-> "tick", ended |-> ended]
    /\ now' = ClockAfterTick
    /\ UNCHANGED <<playerId, difficulty, storageOk, gamePage, gameMission, hasQuiz,
                   selectedStrategy, strategyExecuting, pendingStrategy>>
    /\ UNCHANGED beyondOutage

handleStrategySelect(s) ==
    /\ OutageMainScreen
    /\ gamePhase = "incident"
    /\ selectedStrategy' = s
    /\ gamePhase' = "response"
    /\ intervalClosure' = RenderValues("response", timeRemaining, s, incidents)
    /\ lastOp' = [op |-> "handleStrategySelect"]
    /\ UNCHANGED <<playerId, difficulty, player, shared, storageOk, now, routeVars,
                   timeRemaining, strategyExecuting, incidents, pendingStrategy>>
    /\ UNCHANGED beyondOutage

\* executeStrategy up to its await
executeStrategy ==
    /\ OutageMainScreen
    /\ gamePhase = "response"
    /\ selectedStrategy # Null
    /\ ~strategyExecuting
    /\ strategyExecuting' = TRUE
    /\ pendingStrategy' =
          [stage |-> "executing", timeRemaining |-> timeRemaining,
           selectedStrategy |-> selectedStrategy, incidents |-> incidents]
    /\ lastOp' = [op |-> "executeStrategy"]
    /\ UNCHANGED <<playerId, difficulty, player, shared, storageOk, now, routeVars,
                   timeRemaining, gamePhase, selectedStrategy, incidents, intervalClosure>>
    /\ UNCHANGED beyondOutage

\* executeStrategy after its await: Math.random() < effectiveness / 100
executeStrategyOutcome(wasEffective) ==
    /\ pendingStrategy.stage = "executing"
    /\ IF wasEffective
       THEN LET incs == [i \in DOMAIN incidents |-> [incidents[i] EXCEPT !.resolved = TRUE]]
            IN  /\ incidents' = incs
                /\ gamePhase' = "resolution"
                /\ pendingStrategy' = [pendingStrategy EXCEPT !.stage = "resolved"]
                /\ intervalClosure' =
                      RenderValues("resolution", timeRemaining, selectedStrategy, incs)
                /\ UNCHANGED <<strategyExecuting, selectedStrategy>>
       ELSE /\ strategyExecuting' = FALSE
            /\ selectedStrategy' = Null
            /\ gamePhase' = "incident"
            /\ pendingStrategy' = NoPending
            /\ intervalClosure' = RenderValues("incident", timeRemaining, Null, incidents)
            /\ UNCHANGED incidents
    /\ lastOp' = [op |-> "executeStrategyOutcome", wasEffective |-> wasEffective]
    /\ UNCHANGED <<playerId, difficulty, player, shared, storageOk, now, routeVars,
                   timeRemaining>>
    /\ UNCHANGED beyondOutage

\* the setTimeout(2000) callback of executeStrategy
executeStrategyRecord ==
    /\ pendingStrategy.stage = "resolved"
    /\ LET validation == validateResponse(pendingStrategy)
           st == ThenUnlockIf(~hasQuiz,
                    ThenUpdate(StoreNow, 6,
                        [completed |-> TRUE, timeSpent |-> now,
                         hintsUsed |-> 0, score |-> validation.score], now), now)
       IN  /\ player' = st.player
           /\ shared' = st.shared
           /\ verdict' = [verdict EXCEPT ![6] = VerdictOf(MeetsThreshold(validation))]
           /\ lastOp' = [op |-> "executeStrategyRecord", score |-> validation.score]
    /\ gameCompleted' = TRUE
    /\ showQuiz' = IF hasQuiz THEN TRUE ELSE showQuiz
    /\ pendingStrategy' = NoPending
    /\ UNCHANGED <<playerId, difficulty, storageOk, now, gamePage, gameMission, hasQuiz,
                   timeRemaining, gamePhase, selectedStrategy, strategyExecuting,
                   incidents, intervalClosure>>
    /\ UNCHANGED beyondOutage

OutageQuizComplete(quizScore) ==
    /\ OutageMounted /\ QuizShown
    /\ LET st == ThenUnlock(ThenUpdate(StoreNow, 6, [quizScore |-> quizScore], now), now)
       IN  /\ player' = st.player
           /\ shared' = st.shared
    /\ showQuiz' = FALSE
    /\ lastOp' = [op |-> "outageQuizComplete"]
    /\ UNCHANGED <<playerId, difficulty, storageOk, now, gamePage, gameMission,
                   gameCompleted, hasQuiz, verdict, outageVars>>
    /\ UNCHANGED beyondOutage

OutageQuizSkip ==
    /\ OutageMounted /\ QuizShown
    /\ showQuiz' = FALSE
    /\ lastOp' = [op |-> "outageQuizSkip"]
    /\ UNCHANGED <<playerId, difficulty, player, shared, storageOk, now, gamePage,
                   gameMission, gameCompleted, hasQuiz, verdict, outageVars>>
    /\ UNCHANGED beyondOutage

OutageIdle ==
    /\ timeRemaining = 0
    /\ gamePhase = "none"
    /\ selectedStrategy = Null
    /\ strategyExecuting = FALSE
    /\ incidents = <<>>
    /\ intervalClosure = RenderValues("none", 0, Null, <<>>)
    /\ pendingStrategy = NoPending

\* OutageSimulator just mounted at /game/6 for a newly created player
OutageInit ==
    /\ playerId = "p1"
    /\ difficulty = "beginner"
    /\ player = newPlayer("p1", "Ada", "beginner")
    /\ shared = savePlayerToSharedStorage(NoPlayers, player, 0, TRUE)
    /\ storageOk = TRUE
    /\ now = 0
    /\ lastOp = [op |-> "init"]
    /\ gamePage = "game"
    /\ gameMission = 6
    /\ gameCompleted = FALSE
    /\ showQuiz = FALSE
    /\ hasQuiz \in BOOLEAN
    /\ verdict = NoVerdicts
    /\ timeRemaining = GameSeconds
    /\ gamePhase = "monitoring"
    /\ selectedStrategy = Null
    /\ strategyExecuting = FALSE
    /\ incidents = <<>>
    /\ intervalClosure = RenderValues("monitoring", GameSeconds, Null, <<>>)
    /\ pendingStrategy = NoPending

----------------------------------------------------------------------------
(* Mission 3: PipelineArchitect.  A job's YAML text is kept as the three   *)
(* substring tests validatePipeline makes on it.                           *)

Yaml(runsOn, checkout, steps) ==
    [runsOn |-> runsOn, checkout |-> checkout, steps |-> steps]

\* the default templates of the five available jobs
availableJobs ==
    [test   |-> [id |-> "job-test",   name |-> "Test",   yaml |-> Yaml(TRUE, TRUE, TRUE)],
     lint   |-> [id |-> "job-lint",   name |-> "Lint",   yaml |-> Yaml(TRUE, TRUE, TRUE)],
     build  |-> [id |-> "job-build",  name |-> "Build",  yaml |-> Yaml(TRUE, TRUE, TRUE)],
     push   |-> [id |-> "job-push",   name |-> "Push",   yaml |-> Yaml(TRUE, FALSE, TRUE)],
     deploy |-> [id |-> "job-deploy", name |-> "Deploy", yaml |-> Yaml(TRUE, FALSE, TRUE)]]

JobSamples == {"test", "lint", "build"}     \* the jobs placed on the canvas here

YamlSamples == { Yaml(TRUE, TRUE, TRUE), Yaml(FALSE, FALSE, FALSE) }

RequiredJobsSamples ==
    { <<"test", "build">>, <<"test", "lint", "build", "push", "deploy">> }

\* String.prototype.toLowerCase on the job names
toLowerCase(name) ==
    CASE name = "Test"   -> "test"
      [] name = "Lint"   -> "lint"
      [] name = "Build"  -> "build"
      [] name = "Push"   -> "push"
      [] name = "Deploy" -> "deploy"
      [] OTHER           -> name

JobIds(jobs) == { jobs[i].id : i \in DOMAIN jobs }

PipelineMounted == gamePage = "game" /\ gameMission = 3 /\ ~gameCompleted

handleJobDrop(key) ==
    /\ PipelineMounted
    /\ availableJobs[key].id \notin JobIds(pipelineJobs)
    /\ pipelineJobs' = Append(pipelineJobs,
          [id |-> availableJobs[key].id, name |-> availableJobs[key].name,
           yaml |-> availableJobs[key].yaml, dependencies |-> {}, configured |-> FALSE])
    /\ lastOp' = [op |-> "handleJobDrop"]
    /\ UNCHANGED <<playerId, difficulty, player, shared, storageOk, now, routeVars,
                   requiredJobs, lastValidation, beyondPipe>>

\* JobNode drop: onConnect(droppedJob.id, job.id) when the two differ
handleJobConnect(fromJobId, toJobId) ==
    /\ PipelineMounted
    /\ fromJobId \in JobIds(pipelineJobs)
    /\ toJobId \in JobIds(pipelineJobs)
    /\ fromJobId # toJobId
    /\ pipelineJobs' =
          [i \in DOMAIN pipelineJobs |->
              IF pipelineJobs[i].id = toJobId /\ fromJobId \notin pipelineJobs[i].dependencies
              THEN [pipelineJobs[i] EXCEPT !.dependencies = @ \cup {fromJobId}]
              ELSE pipelineJobs[i]]
    /\ lastOp' = [op |-> "handleJobConnect"]
    /\ UNCHANGED <<playerId, difficulty, player, shared, storageOk, now, routeVars,
                   requiredJobs, lastValidation, beyondPipe>>

handleSaveJobConfig(jobId, yaml) ==
    /\ PipelineMounted
    /\ jobId \in JobIds(pipelineJobs)
    /\ pipelineJobs' =
          [i \in DOMAIN pipelineJobs |->
              IF pipelineJobs[i].id = jobId
              THEN [pipelineJobs[i] EXCEPT !.yaml = yaml, !.configured = TRUE]
              ELSE pipelineJobs[i]]
    /\ lastOp' = [op |-> "handleSaveJobConfig"]
    /\ UNCHANGED <<playerId, difficulty, player, shared, storageOk, now, routeVars,
                   requiredJobs, lastValidation, beyondPipe>>

PresentJobsLower(jobs) == { toLowerCase(jobs[i].name) : i \in DOMAIN jobs }

MissingJobs(jobs, required) ==
    SelectSeq(required, LAMBDA job : toLowerCase(job) \notin PresentJobsLower(jobs))

\* some job named test is in the dependencies of another job
hasTestFirst(jobs) ==
    \E i \in DOMAIN jobs :
        /\ toLowerCase(jobs[i].name) = "test"
        /\ \E j \in DOMAIN jobs : jobs[i].id \in jobs[j].dependencies

\* some job named build has a job named test among its own dependencies
hasBuildAfterTest(jobs) ==
    \E i \in DOMAIN jobs :
        /\ toLowerCase(jobs[i].name) = "build"
        /\ \E depId \in jobs[i].dependencies :
              \E j \in DOMAIN jobs :
                  jobs[j].id = depId /\ toLowerCase(jobs[j].name) = "test"

DependencyScore(jobs) ==
    (IF hasTestFirst(jobs) THEN 25 ELSE 0) + (IF hasBuildAfterTest(jobs) THEN 25 ELSE 0)

JobYamlScore(job) ==
    (IF job.yaml.runsOn THEN 10 ELSE 0) + (IF job.yaml.checkout THEN 10 ELSE 0)
    + (IF job.yaml.steps THEN 10 ELSE 0) + (IF job.configured THEN 10 ELSE 0)

RECURSIVE YamlScore(_)
YamlScore(jobs) ==
    IF jobs = <<>> THEN 0 ELSE JobYamlScore(Head(jobs)) + YamlScore(Tail(jobs))

validatePipeline(jobs, required) ==
    [score |-> Min(100 - (Len(MissingJobs(jobs, required)) * 20)
                   + DependencyScore(jobs) + YamlScore(jobs), 100),
     missingJobs |-> MissingJobs(jobs, required),
     dependencyScore |-> DependencyScore(jobs),
     yamlScore |-> YamlScore(jobs),
     allJobsPresent |-> Len(MissingJobs(jobs, required)) = 0,
     properDependencies |-> DependencyScore(jobs) >= 50,
     allConfigured |-> \A i \in DOMAIN jobs : jobs[i].configured]

PipelinePassed(validation) ==
    validation.allJobsPresent /\ validation.properDependencies /\ validation.allConfigured

\* PipelineArchitect.handleSubmit
PipelineSubmit(t) ==
    /\ PipelineMounted
    /\ LET validation == validatePipeline(pipelineJobs, requiredJobs)
           st == ThenUnlockIf(PipelinePassed(validation),
                    ThenUpdate(StoreNow, 3,
                        [completed |-> PipelinePassed(validation), timeSpent |-> t,
                         hintsUsed |-> 0, score |-> validation.score], now), now)
       IN  /\ player' = st.player
           /\ shared' = st.shared
           /\ lastValidation' = validation
           /\ verdict' = [verdict EXCEPT ![3] = VerdictOf(PipelinePassed(validation))]
    /\ gameCompleted' = TRUE
    /\ lastOp' = [op |-> "pipelineSubmit"]
    /\ UNCHANGED <<playerId, difficulty, storageOk, now, gamePage, gameMission, showQuiz,
                   hasQuiz, pipelineJobs, requiredJobs, beyondPipe>>

PipeIdle ==
    /\ pipelineJobs = <<>>
    /\ requiredJobs = <<>>
    /\ lastValidation = NoResult

\* PipelineArchitect just mounted at /game/3 for a newly created player
PipeInit ==
    /\ playerId = "p1"
    /\ difficulty = "beginner"
    /\ player = newPlayer("p1", "Ada", "beginner")
    /\ shared = savePlayerToSharedStorage(NoPlayers, player, 0, TRUE)
    /\ storageOk = TRUE
    /\ now = 0
    /\ lastOp = [op |-> "init"]
    /\ gamePage = "game"
    /\ gameMission = 3
    /\ gameCompleted = FALSE
    /\ showQuiz = FALSE
    /\ hasQuiz = FALSE
    /\ verdict = NoVerdicts
    /\ pipelineJobs = <<>>
    /\ requiredJobs \in RequiredJobsSamples
    /\ lastValidation = NoResult

----------------------------------------------------------------------------
(* Mission 2: the slots, the optimizations and the simulated metrics of   *)
(* CacheCrash                                                              *)

MaxSlot == 3        \* the drop slots used here, of the seven

instructionsWithExplanations ==
    << "from", "workdir", "copy-reqs", "install", "copy-app", "expose", "cmd" >>

DropItems == {"copy-reqs", "install", "copy-app"}

OptimizationNames == {"--no-cache-dir", ".dockerignore"}

\* droppedInstructions.filter(inst => inst !== null)
NonNull(dropped) == SelectSeq(dropped, LAMBDA x : x # Null)

\* findIndex(i => i.id === id), counted from 0; -1 when absent
IdIndex(instructions, id) ==
    IF \E i \in DOMAIN instructions : instructions[i] = id
    THEN (CHOOSE i \in DOMAIN instructions :
              /\ instructions[i] = id
              /\ \A j \in 1..(i - 1) : instructions[j] # id) - 1
    ELSE -1

\* instructions.some(inst => inst.id === id && indexOf(inst) < findIndex(copy-app))
BeforeCopyApp(instructions, id) ==
    \E i \in DOMAIN instructions :
        /\ instructions[i] = id
        /\ IdIndex(instructions, instructions[i]) < IdIndex(instructions, "copy-app")

\* what updateBuildMetrics sets, from the slots and optimizations it reads
updateBuildMetrics(dropped, applied) ==
    LET instructions == NonNull(dropped)
        ordered == /\ BeforeCopyApp(instructions, "copy-reqs")
                   /\ BeforeCopyApp(instructions, "install")
        time0 == IF ordered THEN Max(45 - 15, 20) ELSE 45
        size0 == IF ordered THEN Max(450 - 50, 200) ELSE 450
        optimizationBonus == Len(applied) * 5
    IN  [buildTime |-> Max(time0 - optimizationBonus, 15),
         imageSize |-> Max(size0 - optimizationBonus * 2, 150)]

\* handleDrop: the set calls are queued, updateBuildMetrics then reads the
\* droppedInstructions and appliedOptimizations of the render it was made in
CacheCrashDrop(item, index) ==
    /\ \E i \in DOMAIN availableInstructions : availableInstructions[i] = item
    /\ availableInstructions' = SelectSeq(availableInstructions, LAMBDA x : x # item)
    /\ droppedInstructions' = [droppedInstructions EXCEPT ![index] = item]
    /\ buildTime' = updateBuildMetrics(droppedInstructions, appliedOptimizations).buildTime
    /\ imageSize' = updateBuildMetrics(droppedInstructions, appliedOptimizations).imageSize
    /\ UNCHANGED <<appliedOptimizations, storeVars>>
    /\ UNCHANGED beyondCache

CacheCrashRemove(index) ==
    /\ droppedInstructions[index] # Null
    /\ availableInstructions' = Append(availableInstructions, droppedInstructions[index])
    /\ droppedInstructions' = [droppedInstructions EXCEPT ![index] = Null]
    /\ buildTime' = updateBuildMetrics(droppedInstructions, appliedOptimizations).buildTime
    /\ imageSize' = updateBuildMetrics(droppedInstructions, appliedOptimizations).imageSize
    /\ UNCHANGED <<appliedOptimizations, storeVars>>
    /\ UNCHANGED beyondCache

applyOptimization(optimization) ==
    /\ \A i \in DOMAIN appliedOptimizations : appliedOptimizations[i] # optimization
    /\ appliedOptimizations' = Append(appliedOptimizations, optimization)
    /\ buildTime' = updateBuildMetrics(droppedInstructions, appliedOptimizations).buildTime
    /\ imageSize' = updateBuildMetrics(droppedInstructions, appliedOptimizations).imageSize
    /\ UNCHANGED <<availableInstructions, droppedInstructions, storeVars>>
    /\ UNCHANGED beyondCache

\* after the initialising effect (the shuffle gives some order)
CacheInit ==
    /\ availableInstructions \in
          { instructionsWithExplanations,
            << "cmd", "expose", "copy-app", "install", "copy-reqs", "workdir", "from" >> }
    /\ droppedInstructions = [i \in DOMAIN instructionsWithExplanations |-> Null]
    /\ appliedOptimizations = <<>>
    /\ buildTime = 45
    /\ imageSize = 450

CacheIdle ==
    /\ availableInstructions = <<>>
    /\ droppedInstructions = <<>>
    /\ appliedOptimizations = <<>>
    /\ buildTime = 0
    /\ imageSize = 0
----------------------------------------------------------------------------
(* Mission 1: the blocks and the slots of DockerfileJigsaw                 *)

MaxSlots == 3       \* requiredOrder.length: the number of drop slots

\* id: `block-${index}` over mission.validation.blocks
allBlocks == << "block-0", "block-1", "block-2", "block-3" >>

BlockIds == { allBlocks[i] : i \in DOMAIN allBlocks }

JigsawDrop(item, index) ==
    /\ \E i \in DOMAIN availableBlocks : availableBlocks[i] = item
    /\ availableBlocks' = SelectSeq(availableBlocks, LAMBDA block : block # item)
    /\ droppedBlocks' = [droppedBlocks EXCEPT ![index] = item]
    /\ UNCHANGED storeVars
    /\ UNCHANGED beyondJigsaw

JigsawRemove(index) ==
    /\ droppedBlocks[index] # Null
    /\ availableBlocks' = Append(availableBlocks, droppedBlocks[index])
    /\ droppedBlocks' = [droppedBlocks EXCEPT ![index] = Null]
    /\ UNCHANGED storeVars
    /\ UNCHANGED beyondJigsaw

\* after the initialising effect (the shuffle gives some order)
JigsawInit ==
    /\ availableBlocks \in { allBlocks, << "block-3", "block-2", "block-0", "block-1" >> }
    /\ droppedBlocks = [i \in 1..MaxSlots |-> Null]

JigsawIdle ==
    /\ availableBlocks = <<>>
    /\ droppedBlocks = <<>>
----------------------------------------------------------------------------
(* Two player tabs saving to the same localStorage item.  Each tab runs    *)
(* savePlayerToSharedStorage in two storage steps: getItem, then setItem.  *)

Tabs == {"A", "B"}

TabPlayerId == [A |-> "p1", B |-> "p2"]

TabPartials == { [completed |-> TRUE, timeSpent |-> 1, hintsUsed |-> 0, score |-> 100] }

\* the store mutation, then savePlayerToSharedStorage up to and including getItem
TabBeginSave(t, p) ==
    /\ tabPc[t] = "idle"
    /\ tabPlayer' = [tabPlayer EXCEPT ![t] = p]
    /\ tabRead' = [tabRead EXCEPT ![t] = shared]
    /\ tabPc' = [tabPc EXCEPT ![t] = "write"]
    /\ UNCHANGED <<tabSaved, storeVars>>
    /\ UNCHANGED beyondTabs

TabCreatePlayer(t, name) ==
    /\ tabPlayer[t] = NoPlayer
    /\ TabBeginSave(t, newPlayer(TabPlayerId[t], name, "beginner"))

TabUpdateMissionProgress(t, missionId, partial) ==
    /\ tabPlayer[t] # NoPlayer
    /\ TabBeginSave(t, updatedPlayerProgress(tabPlayer[t], missionId, partial))

TabUnlockNextMission(t) ==
    /\ tabPlayer[t] # NoPlayer
    /\ TabBeginSave(t, updatedPlayerUnlock(tabPlayer[t]))

\* allPlayers[player.id] = ...; setItem(JSON.stringify(allPlayers))
TabSetItem(t) ==
    /\ tabPc[t] = "write"
    /\ shared' = StoreInto(tabRead[t], tabPlayer[t], now)
    /\ tabSaved' = [tabSaved EXCEPT ![t] = tabPlayer[t]]
    /\ tabPc' = [tabPc EXCEPT ![t] = "idle"]
    /\ UNCHANGED <<tabPlayer, tabRead, playerId, difficulty, player, storageOk, now, lastOp>>
    /\ UNCHANGED beyondTabs

TabsIdle ==
    /\ tabPlayer = [t \in Tabs |-> NoPlayer]
    /\ tabPc = [t \in Tabs |-> "idle"]
    /\ tabRead = [t \in Tabs |-> NoPlayers]
    /\ tabSaved = [t \in Tabs |-> NoPlayer]

----------------------------------------------------------------------------
(* Progress tokens: generateProgressToken and parseProgressToken *)

MaxLegacyCalls == 1  \* completeMission, useHint and addTimeSpent calls explored

\* player names as UTF-16 code units: "Ada", and a name with U+0141, which is not Latin-1
NameAda == <<65, 100, 97>>
NameLu == <<321, 117>>
TokenNameSamples == {NameAda, NameLu}

TokenPartials ==
    { [completed |-> TRUE, timeSpent |-> 1, hintsUsed |-> 0, score |-> 100],
      [completed |-> FALSE, timeSpent |-> 1, hintsUsed |-> 0, score |-> NaN] }

NoToken == [none |-> TRUE]      \* no call made yet
Threw == [threw |-> TRUE]       \* the call ended in an exception
NullData == [null |-> TRUE]     \* the null that parseProgressToken returns

\* tokenData of generateProgressToken
TokenDataOf(id, diff, completed, hints, spent, p, time) ==
    [playerId |-> id, difficulty |-> diff, completedMissions |-> completed,
     hintsUsed |-> hints, timeSpent |-> spent, timestamp |-> time,
     player |-> IF p # NoPlayer
                THEN [id |-> p.id, name |-> p.name, difficulty |-> p.difficulty,
                      currentMission |-> p.currentMission, progress |-> p.progress,
                      totalTimeSpent |-> p.totalTimeSpent]
                ELSE NoPlayer]

\* JSON.stringify: the text of a value, where NaN is written as null
JSONstringify(data) ==
    [json |-> TRUE,
     value |-> [data EXCEPT !.hintsUsed = JsonNumber(@),
                            !.timeSpent = JsonNumber(@),
                            !.player = IF @ = NoPlayer THEN @ ELSE JsonPlayer(@)]]

\* btoa accepts only code units up to U+00FF
Latin1(value) ==
    \/ value.player = NoPlayer
    \/ \A i \in DOMAIN value.player.name : value.player.name[i] <= 255

btoa(text) == IF Latin1(text.value) THEN [base64 |-> TRUE, text |-> text] ELSE Threw

\* atob throws on a string that is not base64
atob(token) == IF token.base64 THEN token.text ELSE Threw

\* JSON.parse throws on a text that is not JSON
JSONparse(text) == IF text.json THEN text.value ELSE Threw

generateProgressToken(id, diff, completed, hints, spent, p, time) ==
    btoa(JSONstringify(TokenDataOf(id, diff, completed, hints, spent, p, time)))

\* try { return JSON.parse(atob(token)) } catch { return null }
parseProgressTokenUncaught(token) ==
    LET text == atob(token)
    IN  IF text = Threw THEN Threw ELSE JSONparse(text)
parseProgressToken(token) ==
    LET text == atob(token)
    IN  IF text = Threw THEN NullData
        ELSE IF JSONparse(text) = Threw THEN NullData ELSE JSONparse(text)

\* strings that are not tokens
NotBase64 == [base64 |-> FALSE]
NotJson == [base64 |-> TRUE, text |-> [json |-> FALSE]]
MalformedTokens == {NotBase64, NotJson}

IsToken(t) == t # NoToken /\ t # Threw


(* gameStore actions beside the player *)

LegacyCalls == Len(completedMissions) + hintsUsed + timeSpent

CompleteMission(missionId) ==
    /\ LegacyCalls < MaxLegacyCalls
    /\ completedMissions' = Append(completedMissions, missionId)
    /\ UNCHANGED <<hintsUsed, timeSpent, storeVars, tokenVars, beyondToken>>

UseHint ==
    /\ LegacyCalls < MaxLegacyCalls
    /\ hintsUsed' = hintsUsed + 1
    /\ UNCHANGED <<completedMissions, timeSpent, storeVars, tokenVars, beyondToken>>

AddTimeSpent(seconds) ==
    /\ LegacyCalls < MaxLegacyCalls
    /\ timeSpent' = timeSpent + seconds
    /\ UNCHANGED <<completedMissions, hintsUsed, storeVars, tokenVars, beyondToken>>

GenerateProgressToken ==
    /\ tokenText' = generateProgressToken(playerId, difficulty, completedMissions,
                                          hintsUsed, timeSpent, player, now)
    /\ tokenOf' = TokenDataOf(playerId, difficulty, completedMissions,
                              hintsUsed, timeSpent, player, now)
    /\ tokenData' = NoToken
    /\ parsedFrom' = NoToken
    /\ UNCHANGED <<legacyVars, storeVars, beyondToken>>

\* called with garbage, or with the token last generated
ParseProgressToken(token) ==
    /\ IsToken(token)
    /\ tokenData' = parseProgressToken(token)
    /\ parsedFrom' = token
    /\ UNCHANGED <<tokenText, tokenOf, legacyVars, storeVars, beyondToken>>

LegacyIdle ==
    /\ completedMissions = <<>>
    /\ hintsUsed = 0
    /\ timeSpent = 0

TokenIdle ==
    /\ tokenText = NoToken
    /\ tokenOf = NoToken
    /\ tokenData = NoToken
    /\ parsedFrom = NoToken
----------------------------------------------------------------------------
(* InstructorDashboard: the player list, token import, the polling timer *)

MaxTimers == 3      \* setInterval calls explored

NoTimer == 0
NoAlert == [none |-> TRUE]
EmptyText == [empty |-> TRUE]       \* the empty string of the token field
MissingId == ""                     \* an id that is undefined or empty: falsy either way

InvalidTokenAlert == [text |-> "Invalid token. Please check and try again."]
InvalidProgressTokenAlert == [text |-> "Invalid progress token. Please check and try again."]
ImportedAlert(name) == [text |-> "Imported progress for", name |-> name]

\* code units of the player ids
IdUnits(id) ==
    CASE id = "p1" -> <<112, 49>>
      [] id = "p2" -> <<112, 50>>
      [] id = "p3" -> <<112, 51>>
      [] OTHER -> <<>>

PlayerWord == <<80, 108, 97, 121, 101, 114, 32>>    \* "Player "
SixX == <<120, 120, 120, 120, 120, 120>>            \* "xxxxxx"

\* String.prototype.slice(0, n)
Slice(s, n) == SubSeq(s, 1, Min(Len(s), n))

(* tokens *)

Base64Json(value) == [base64 |-> TRUE, text |-> [json |-> TRUE, value |-> value]]

\* the token of a store with missions 1 and 2 completed and no player created
LegacyToken == generateProgressToken("p1", "beginner", <<1, 2>>, 0, 0, NoPlayer, 0)

PlayerP2 ==
    [id |-> "p2", name |-> NameAda, difficulty |-> "beginner", currentMission |-> 2,
     progress |-> <<[missionId |-> 1, completed |-> TRUE, timeSpent |-> 1,
                     hintsUsed |-> 0, score |-> 100]>>,
     totalTimeSpent |-> 1]

\* the token of a store whose player finished mission 1
FullToken == generateProgressToken("p2", "beginner", <<>>, 0, 0, PlayerP2, 0)

NoIdToken == Base64Json([difficulty |-> "beginner"])     \* JSON without a player id
NullJsonToken == Base64Json(NullData)                      \* the JSON text null

ImportTokens == MalformedTokens \cup {NoIdToken, NullJsonToken, LegacyToken, FullToken}

\* what the token form is tried with
AddTokens == {NotJson, LegacyToken}
AddNames == {<<>>}

(* shared storage as the dashboard reads it *)

\* allPlayers[player.id] = ...: a new key goes last, an existing key stays in place
KeysAfter(keys, id) ==
    IF \E i \in DOMAIN keys : keys[i] = id THEN keys ELSE Append(keys, id)

\* players.sort((a, b) => timeB - timeA), a stable sort: k goes behind every
\* key whose lastUpdate is not older
InsertByUpdate(storage, sorted, k) ==
    LET c == Cardinality({i \in DOMAIN sorted :
                            storage[sorted[i]].lastUpdate >= storage[k].lastUpdate})
    IN  SubSeq(sorted, 1, c) \o <<k>> \o SubSeq(sorted, c + 1, Len(sorted))

RECURSIVE SortByUpdate(_, _)
SortByUpdate(storage, keys) ==
    IF keys = <<>> THEN <<>>
    ELSE InsertByUpdate(storage,
                        SortByUpdate(storage, SubSeq(keys, 1, Len(keys) - 1)),
                        keys[Len(keys)])

loadPlayers(storage, keys) ==
    LET sorted == SortByUpdate(storage, keys)
    IN  [i \in DOMAIN sorted |-> storage[sorted[i]].player]

(* importToken *)

\* the Player that importToken builds from the decoded data
importedPlayer(data) ==
    IF data = NullData THEN Threw       \* data.player of null
    ELSE IF "player" \in DOMAIN data /\ data.player # NoPlayer
    THEN [id |-> IF "id" \in DOMAIN data.player THEN data.player.id ELSE MissingId,
          name |-> data.player.name,
          difficulty |-> data.player.difficulty,
          currentMission |-> data.player.currentMission,
          progress |-> IF "progress" \in DOMAIN data.player
                       THEN data.player.progress ELSE <<>>,
          totalTimeSpent |-> IF data.player.totalTimeSpent = JsonNull THEN 0
                             ELSE data.player.totalTimeSpent]
    ELSE LET id == IF "playerId" \in DOMAIN data THEN data.playerId ELSE MissingId
         IN  [id |-> id,
              name |-> IF "name" \in DOMAIN data THEN data.name
                       ELSE PlayerWord \o Slice(IdUnits(id), 5),
              difficulty |-> IF "difficulty" \in DOMAIN data THEN data.difficulty
                             ELSE "beginner",
              currentMission |-> 1,
              progress |-> <<>>,
              totalTimeSpent |-> IF "timeSpent" \in DOMAIN data /\ data.timeSpent # JsonNull
                                 THEN data.timeSpent ELSE 0]

\* if (!player?.id) throw
RequireIdNone(p) == p
RequireId(p) == IF p # Threw /\ p.id = MissingId THEN Threw ELSE p

\* the try block of importToken up to the save: the player, or Threw
importTokenPlayer(token) ==
    LET raw == atob(token)
    IN  IF raw = Threw THEN Threw
        ELSE IF JSONparse(raw) = Threw THEN Threw
        ELSE RequireId(importedPlayer(JSONparse(raw)))

ImportToken(token) ==
    /\ dashMounted
    /\ LET p == importTokenPlayer(token)
       IN  IF p = Threw
           THEN /\ dashAlert' = InvalidTokenAlert
                /\ importTokenText' = token
                /\ UNCHANGED <<shared, sharedKeys, trackedPlayers>>
           ELSE /\ shared' = savePlayerToSharedStorage(shared, p, now, storageOk)
                /\ sharedKeys' = KeysAfter(sharedKeys, p.id)
                /\ importTokenText' = EmptyText
                /\ trackedPlayers' = loadPlayers(shared', sharedKeys')
                /\ dashAlert' = ImportedAlert(p.name)
    /\ dashOp' = [op |-> "importToken", token |-> token]
    /\ UNCHANGED <<dashMounted, autoRefresh, pollTimers, effectTimer, nextTimer, addedPlayers>>
    /\ UNCHANGED <<playerId, difficulty, player, storageOk, now, lastOp>>
    /\ UNCHANGED beyondDash

(* handleAddPlayer of the token-form dashboard *)

RECURSIVE MaxOf(_)
MaxOf(s) == IF Len(s) = 1 THEN s[1] ELSE Max(s[1], MaxOf(Tail(s)))

\* the Player that handleAddPlayer builds from the parsed token
addedPlayer(tokenDataIn, nameInput) ==
    LET completed == IF "completedMissions" \in DOMAIN tokenDataIn
                     THEN tokenDataIn.completedMissions ELSE <<>>
        id == IF "playerId" \in DOMAIN tokenDataIn THEN tokenDataIn.playerId ELSE MissingId
    IN  [id |-> id,
         name |-> IF nameInput # <<>> THEN nameInput
                  ELSE PlayerWord \o Slice(IF id = MissingId THEN SixX ELSE IdUnits(id), 6),
         difficulty |-> IF "difficulty" \in DOMAIN tokenDataIn THEN tokenDataIn.difficulty
                        ELSE "beginner",
         currentMission |-> IF Len(completed) > 0
                            THEN Min(MaxOf(completed) + 1, MissionCount) ELSE 1,
         progress |-> [i \in DOMAIN completed |->
                         [missionId |-> completed[i], completed |-> TRUE, timeSpent |-> 0,
                          hintsUsed |-> 0, score |-> 0]],
         totalTimeSpent |-> IF "timeSpent" \in DOMAIN tokenDataIn
                               /\ tokenDataIn.timeSpent # JsonNull
                            THEN tokenDataIn.timeSpent ELSE 0]

\* setTrackedPlayers: replace the record with the same id, or append
UpsertById(list, p) ==
    IF \E i \in DOMAIN list : list[i].id = p.id
    THEN [i \in DOMAIN list |-> IF list[i].id = p.id THEN p ELSE list[i]]
    ELSE Append(list, p)

\* handleAddPlayer; the form fields it clears are display state only
HandleAddPlayer(token, nameInput) ==
    /\ dashMounted
    /\ LET parsed == parseProgressToken(token)
       IN  IF parsed # NullData
           THEN /\ addedPlayers' = UpsertById(addedPlayers, addedPlayer(parsed, nameInput))
                /\ UNCHANGED dashAlert
           ELSE /\ dashAlert' = InvalidProgressTokenAlert
                /\ UNCHANGED addedPlayers
    /\ dashOp' = [op |-> "handleAddPlayer", token |-> token]
    /\ UNCHANGED <<dashMounted, autoRefresh, trackedPlayers, importTokenText,
                   pollTimers, effectTimer, nextTimer, sharedKeys>>
    /\ UNCHANGED storeVars
    /\ UNCHANGED beyondDash

(* the auto-refresh effect *)

\* return () => clearInterval(interval)
effectCleanupNone(timers, t) == timers
effectCleanup(timers, t) == timers \ {t}

\* the effect body: setInterval when autoRefresh is on
TimersAfterEffect(timers, on) == IF on THEN timers \cup {nextTimer} ELSE timers
EffectTimerAfter(on) == IF on THEN nextTimer ELSE NoTimer
NextTimerAfter(on) == IF on THEN nextTimer + 1 ELSE nextTimer

\* the dashboard route is entered: initial state, loadPlayers, the effect
DashMount ==
    /\ ~dashMounted
    /\ nextTimer <= MaxTimers
    /\ dashMounted' = TRUE
    /\ autoRefresh' = TRUE
    /\ trackedPlayers' = loadPlayers(shared, sharedKeys)
    /\ importTokenText' = EmptyText
    /\ pollTimers' = TimersAfterEffect(pollTimers, TRUE)
    /\ effectTimer' = EffectTimerAfter(TRUE)
    /\ nextTimer' = NextTimerAfter(TRUE)
    /\ dashOp' = [op |-> "mount"]
    /\ UNCHANGED <<dashAlert, sharedKeys, addedPlayers, storeVars>>
    /\ UNCHANGED beyondDash

\* the checkbox: setAutoRefresh, then the old effect's cleanup and the new effect
ToggleAutoRefresh ==
    /\ dashMounted
    /\ autoRefresh \/ nextTimer <= MaxTimers
    /\ autoRefresh' = ~autoRefresh
    /\ pollTimers' = TimersAfterEffect(effectCleanup(pollTimers, effectTimer), ~autoRefresh)
    /\ effectTimer' = EffectTimerAfter(~autoRefresh)
    /\ nextTimer' = NextTimerAfter(~autoRefresh)
    /\ dashOp' = [op |-> "toggle"]
    /\ UNCHANGED <<dashMounted, trackedPlayers, importTokenText, dashAlert, sharedKeys,
                   addedPlayers, storeVars>>
    /\ UNCHANGED beyondDash

\* the route is left: the cleanup runs, the component state is dropped
DashUnmount ==
    /\ dashMounted
    /\ dashMounted' = FALSE
    /\ autoRefresh' = FALSE
    /\ pollTimers' = effectCleanup(pollTimers, effectTimer)
    /\ effectTimer' = NoTimer
    /\ trackedPlayers' = <<>>
    /\ addedPlayers' = <<>>
    /\ importTokenText' = EmptyText
    /\ dashOp' = [op |-> "unmount"]
    /\ UNCHANGED <<dashAlert, nextTimer, sharedKeys, storeVars>>
    /\ UNCHANGED beyondDash

\* an interval fires: loadPlayers (a state update of an unmounted component is dropped)
PollFire(t) ==
    /\ t \in pollTimers
    /\ trackedPlayers' = IF dashMounted THEN loadPlayers(shared, sharedKeys)
                         ELSE trackedPlayers
    /\ dashOp' = [op |-> "poll", timer |-> t]
    /\ UNCHANGED <<dashMounted, autoRefresh, importTokenText, dashAlert, pollTimers,
                   effectTimer, nextTimer, sharedKeys, addedPlayers, storeVars>>
    /\ UNCHANGED beyondDash

\* a player's tab saves its record while the dashboard is open elsewhere
PlayerTabSamples == { newPlayer("p2", NameAda, "beginner"), newPlayer("p3", NameAda, "beginner") }

PlayerTabSave(p) ==
    /\ shared' = savePlayerToSharedStorage(shared, p, now, storageOk)
    /\ sharedKeys' = KeysAfter(sharedKeys, p.id)
    /\ UNCHANGED <<dashMounted, autoRefresh, trackedPlayers, importTokenText, dashAlert,
                   pollTimers, effectTimer, nextTimer, addedPlayers, dashOp>>
    /\ UNCHANGED <<playerId, difficulty, player, storageOk, now, lastOp>>
    /\ UNCHANGED beyondDash

\* time passes
ClockTick ==
    /\ now < MaxTime
    /\ now' = now + 1
    /\ UNCHANGED <<playerId, difficulty, player, shared, storageOk, lastOp>>
    /\ UNCHANGED dashVars
    /\ UNCHANGED beyondDash

DashIdle ==
    /\ dashMounted = FALSE
    /\ autoRefresh = FALSE
    /\ trackedPlayers = <<>>
    /\ importTokenText = EmptyText
    /\ dashAlert = NoAlert
    /\ pollTimers = {}
    /\ effectTimer = NoTimer
    /\ nextTimer = 1
    /\ sharedKeys = <<>>
    /\ addedPlayers = <<>>
    /\ dashOp = [op |-> "none"]

\* the dashboard after its first render and effects
DashOpen ==
    /\ dashMounted = TRUE
    /\ autoRefresh = TRUE
    /\ trackedPlayers = <<>>
    /\ importTokenText = EmptyText
    /\ dashAlert = NoAlert
    /\ pollTimers = {1}
    /\ effectTimer = 1
    /\ nextTimer = 2
    /\ sharedKeys = <<>>
    /\ addedPlayers = <<>>
    /\ dashOp = [op |-> "mount"]
----------------------------------------------------------------------------
(* InstructorDashboard.exportProgress: the rows of the CSV file *)

MaxEntries == 2         \* progress entries of an exported player: 0..MaxEntries

EmptyCell == -1000003   \* the empty string '' in a cell
NoExport == [exported |-> FALSE, rows |-> <<>>]

\* Math.round of n / d for n >= 0, d > 0
RoundDiv(n, d) == (2 * n + d) \div (2 * d)

RECURSIVE SumOver(_, _)
SumOver(progress, field) ==
    IF progress = <<>> THEN 0
    ELSE (IF field \in DOMAIN Head(progress) /\ Head(progress)[field] # JsonNull
          THEN Head(progress)[field] ELSE 0)
         + SumOver(Tail(progress), field)

\* x || '' and x || 0
OrEmpty(x) == IF x = 0 \/ x = JsonNull THEN EmptyCell ELSE x
OrNought(x) == IF x = JsonNull THEN 0 ELSE x

\* progress.filter(p => p.quizScore !== undefined)
WithQuizScore(progress) == SelectSeq(progress, LAMBDA p : "quizScore" \in DOMAIN p)

\* avgQuizScore: the rounded mean, or null (JsonNull)
avgQuizScoreOf(progress) ==
    LET quizScores == WithQuizScore(progress)
    IN  IF Len(quizScores) > 0
        THEN RoundDiv(SumOver(quizScores, "quizScore"), Len(quizScores))
        ELSE JsonNull

avgScoreOf(progress) ==
    IF Len(progress) > 0 THEN RoundDiv(SumOver(progress, "score"), Len(progress)) ELSE 0

\* progress.find(p => p.missionId === missionId)?.score || 0
missionScoreOf(progress, missionId) ==
    LET i == FindIndex(progress, missionId)
    IN  IF i > 0 THEN OrNought(progress[i].score) ELSE 0

\* progress.find(p => p.missionId === missionId)?.quizScore || ''
missionQuizOf(progress, missionId) ==
    LET i == FindIndex(progress, missionId)
    IN  IF i > 0 /\ "quizScore" \in DOMAIN progress[i]
        THEN OrEmpty(progress[i].quizScore) ELSE EmptyCell

\* one element of csvData
csvRow(p, time) ==
    [name |-> p.name,
     difficulty |-> p.difficulty,
     currentMission |-> p.currentMission,
     completedMissions |-> Len(SelectSeq(p.progress, LAMBDA e : e.completed)),
     avgScore |-> avgScoreOf(p.progress),
     avgQuizScore |-> OrEmpty(avgQuizScoreOf(p.progress)),
     missionScores |-> [m \in 1..MissionCount |-> missionScoreOf(p.progress, m)],
     missionQuizScores |-> [m \in 1..MissionCount |-> missionQuizOf(p.progress, m)],
     totalTimeSpent |-> RoundDiv(p.totalTimeSpent, 60000),
     totalHintsUsed |-> SumOver(p.progress, "hintsUsed"),
     createdAt |-> time]

ExportProgress ==
    /\ dashMounted
    /\ csvData' = [exported |-> TRUE,
                   rows |-> [i \in DOMAIN trackedPlayers |-> csvRow(trackedPlayers[i], now)]]
    /\ UNCHANGED <<storeVars, dashVars>>
    /\ UNCHANGED beyondExport

(* the players the dashboard may be listing *)

ExportScores == {JsonNull, 45, 100}         \* null is a NaN score read back from JSON
ExportQuizScores == {0, 33, 100}            \* Math.round(correct / 3 * 100)

ExportEntries(m) ==
    { [missionId |-> m, completed |-> s = 100, timeSpent |-> 60, hintsUsed |-> 1,
       score |-> s] : s \in ExportScores }
    \cup
    { [missionId |-> m, completed |-> s = 100, timeSpent |-> 60, hintsUsed |-> 1,
       score |-> s, quizScore |-> q] : s \in ExportScores, q \in ExportQuizScores }

RECURSIVE ExportProgressOf(_)
ExportProgressOf(n) ==
    IF n = 0 THEN {<<>>}
    ELSE ExportProgressOf(n - 1)
         \cup { Append(pr, e) : pr \in {q \in ExportProgressOf(n - 1) : Len(q) = n - 1},
                                e \in ExportEntries(n) }

ExportPlayers ==
    { [id |-> "p1", name |-> NameAda, difficulty |-> "beginner",
       currentMission |-> Len(pr) + 1, progress |-> pr, totalTimeSpent |-> 60 * Len(pr)]
      : pr \in ExportProgressOf(MaxEntries) }

\* the dashboard listing one player, nothing exported yet
ExportInit ==
    /\ dashMounted = TRUE
    /\ autoRefresh = TRUE
    /\ trackedPlayers \in { <<p>> : p \in ExportPlayers }
    /\ importTokenText = EmptyText
    /\ dashAlert = NoAlert
    /\ pollTimers = {1}
    /\ effectTimer = 1
    /\ nextTimer = 2
    /\ sharedKeys = <<"p1">>
    /\ addedPlayers = <<>>
    /\ dashOp = [op |-> "mount"]
    /\ csvData = NoExport

ExportIdle == csvData = NoExport
----------------------------------------------------------------------------
(* TokenShareReminder *)

MaxDismissals == 2
MaxCopyTimers == 2

\* try { setToken(generateProgressToken()) } catch { setToken('') }
refreshToken ==
    LET t == generateProgressToken(playerId, difficulty, completedMissions,
                                   hintsUsed, timeSpent, player, now)
    IN  IF t = Threw THEN EmptyText ELSE t

\* the effect on [player, refreshToken]: the cleanup of the previous run clears
\* its timeout, then schedule() sets one timeout if there is a player
scheduleEffect(p) == p # NoPlayer

ReminderPartials ==
    { [completed |-> c, timeSpent |-> 0, hintsUsed |-> 0, score |-> IF c THEN 100 ELSE 40] :
          c \in BOOLEAN }

\* the store's createPlayer, and the effect run its new player object causes
ReminderPlayerCreated(name) ==
    /\ createPlayer(name)
    /\ lastOp' = [op |-> "createPlayer", existed |-> player # NoPlayer,
                  threw |-> saveThrows(storageOk)]
    /\ remTimer' = scheduleEffect(player')
    /\ UNCHANGED <<remVisible, remToken, remCopied, remCopyTimers, remDismissed>>
    /\ UNCHANGED beyondReminder

\* the store's updateMissionProgress, and the effect run its new player object causes
ReminderPlayerUpdated(missionId, partial) ==
    /\ player # NoPlayer
    /\ updateMissionProgress(missionId, partial)
    /\ lastOp' = UpdateKind(missionId, partial)
    /\ remTimer' = scheduleEffect(player')
    /\ UNCHANGED <<remVisible, remToken, remCopied, remCopyTimers, remDismissed>>
    /\ UNCHANGED beyondReminder

\* the timeout callback after TEN_MIN_MS
ReminderFire ==
    /\ remTimer
    /\ remTimer' = FALSE
    /\ remToken' = refreshToken
    /\ remCopied' = FALSE
    /\ remVisible' = TRUE
    /\ UNCHANGED <<remCopyTimers, remDismissed, storeVars>>
    /\ UNCHANGED beyondReminder

\* handleCopy when clipboard.writeText resolves (a rejection changes nothing)
HandleCopy ==
    /\ remVisible
    /\ remCopyTimers < MaxCopyTimers
    /\ remCopied' = TRUE
    /\ remCopyTimers' = remCopyTimers + 1
    /\ UNCHANGED <<remVisible, remToken, remTimer, remDismissed, storeVars>>
    /\ UNCHANGED beyondReminder

\* setTimeout(() => setCopied(false), 1500)
CopyReset ==
    /\ remCopyTimers > 0
    /\ remCopied' = FALSE
    /\ remCopyTimers' = remCopyTimers - 1
    /\ UNCHANGED <<remVisible, remToken, remTimer, remDismissed, storeVars>>
    /\ UNCHANGED beyondReminder

\* dismiss: acts only after a copy; it sets no timeout
Dismiss ==
    /\ remVisible
    /\ remCopied
    /\ remDismissed < MaxDismissals
    /\ remVisible' = FALSE
    /\ remDismissed' = remDismissed + 1
    /\ UNCHANGED <<remToken, remCopied, remTimer, remCopyTimers, storeVars>>
    /\ UNCHANGED beyondReminder

\* mounted with no player yet: the effect returns at once
ReminderIdle ==
    /\ remVisible = FALSE
    /\ remToken = EmptyText
    /\ remCopied = FALSE
    /\ remTimer = FALSE
    /\ remCopyTimers = 0
    /\ remDismissed = 0
----------------------------------------------------------------------------
(* Spec: the store driven through its API *)

StoreInit ==
    /\ playerId = "p1"
    /\ difficulty = "beginner"
    /\ player = NoPlayer
    /\ shared = NoPlayers
    /\ storageOk = TRUE
    /\ now = 0
    /\ lastOp = [op |-> "init"]

Init == StoreInit /\ OrderIdle /\ RouteIdle /\ OutageIdle /\ TabsIdle /\ PipeIdle /\ LegacyIdle /\ TokenIdle /\ DashIdle /\ ExportIdle /\ ClassifyIdle /\ ReminderIdle /\ CacheIdle /\ JigsawIdle

Next ==
    \/ \E d \in DifficultySamples : SetDifficulty(d)
    \/ \E n \in NameSamples : CreatePlayer(n)
    \/ \E m \in MissionSamples, partial \in Partials : UpdateMissionProgress(m, partial)
    \/ UnlockNextMission

Spec == Init /\ [][Next]_vars

----------------------------------------------------------------------------
(* SpecOrder: validateOrder applied to enumerated inputs *)

InitOrder == StoreInit /\ OrderInit /\ RouteIdle /\ OutageIdle /\ TabsIdle /\ PipeIdle /\ LegacyIdle /\ TokenIdle /\ DashIdle /\ ExportIdle /\ ClassifyIdle /\ ReminderIdle /\ CacheIdle /\ JigsawIdle

NextOrder ==
    \/ ClassifyBlocks
    \/ ValidateOrder

SpecOrder == InitOrder /\ [][NextOrder]_vars

----------------------------------------------------------------------------
(* SpecGame: a player going through the mission screens *)

InitGame == StoreInit /\ OrderIdle /\ RouteInit /\ OutageIdle /\ TabsIdle /\ PipeIdle /\ LegacyIdle /\ TokenIdle /\ DashIdle /\ ExportIdle /\ ClassifyIdle /\ ReminderIdle /\ CacheIdle /\ JigsawIdle

NextGame ==
    \/ \E playerName \in StartNames, d \in DifficultySamples : HandleStartGame(playerName, d)
    \/ \E m \in GameMissions : HandleMissionClick(m)
    \/ IntroStartGame
    \/ NavigateHome
    \/ \E dropped \in JigsawSubmissions, t \in 0..MaxTime : JigsawSubmit(dropped, t)
    \/ \E v \in ValidationSamples, t \in 0..MaxTime : CacheCrashSubmit(v, t)
    \/ \E q \in QuizScoreSamples : CacheCrashQuizComplete(q)
    \/ CacheCrashQuizSkip

SpecGame == InitGame /\ [][NextGame]_vars

----------------------------------------------------------------------------
(* SpecOutage: the outage simulation of mission 6 *)

InitOutage == OutageInit /\ OrderIdle /\ TabsIdle /\ PipeIdle /\ LegacyIdle /\ TokenIdle /\ DashIdle /\ ExportIdle /\ ClassifyIdle /\ ReminderIdle /\ CacheIdle /\ JigsawIdle

NextOutage ==
    \/ \E trigger \in BOOLEAN : Tick(trigger)
    \/ \E s \in StrategyNames : handleStrategySelect(s)
    \/ executeStrategy
    \/ \E wasEffective \in BOOLEAN : executeStrategyOutcome(wasEffective)
    \/ executeStrategyRecord
    \/ \E q \in QuizScoreSamples : OutageQuizComplete(q)
    \/ OutageQuizSkip

SpecOutage == InitOutage /\ [][NextOutage]_vars

----------------------------------------------------------------------------
(* SpecTabs: two tabs, every interleaving of their storage steps *)

InitTabs == StoreInit /\ OrderIdle /\ RouteIdle /\ OutageIdle /\ TabsIdle /\ PipeIdle /\ LegacyIdle /\ TokenIdle /\ DashIdle /\ ExportIdle /\ ClassifyIdle /\ ReminderIdle /\ CacheIdle /\ JigsawIdle

NextTabs ==
    \/ \E t \in Tabs, n \in NameSamples : TabCreatePlayer(t, n)
    \/ \E t \in Tabs, partial \in TabPartials : TabUpdateMissionProgress(t, 1, partial)
    \/ \E t \in Tabs : TabUnlockNextMission(t)
    \/ \E t \in Tabs : TabSetItem(t)

SpecTabs == InitTabs /\ [][NextTabs]_vars

----------------------------------------------------------------------------
(* SpecPipeline: the pipeline canvas of mission 3 *)

InitPipeline == PipeInit /\ OrderIdle /\ OutageIdle /\ TabsIdle /\ LegacyIdle /\ TokenIdle /\ DashIdle /\ ExportIdle /\ ClassifyIdle /\ ReminderIdle /\ CacheIdle /\ JigsawIdle

NextPipeline ==
    \/ \E key \in JobSamples : handleJobDrop(key)
    \/ \E a \in JobSamples, b \in JobSamples :
          handleJobConnect(availableJobs[a].id, availableJobs[b].id)
    \/ \E key \in JobSamples, yaml \in YamlSamples :
          handleSaveJobConfig(availableJobs[key].id, yaml)
    \/ \E t \in 0..MaxTime : PipelineSubmit(t)

SpecPipeline == InitPipeline /\ [][NextPipeline]_vars


----------------------------------------------------------------------------
(* SpecToken: the store with tokens generated from it and parsed *)

InitToken == StoreInit /\ OrderIdle /\ RouteIdle /\ OutageIdle /\ TabsIdle /\ PipeIdle /\ LegacyIdle /\ TokenIdle /\ DashIdle /\ ExportIdle /\ ClassifyIdle /\ ReminderIdle /\ CacheIdle /\ JigsawIdle

NextToken ==
    \/ \E n \in TokenNameSamples : CreatePlayer(n)
    \/ \E partial \in TokenPartials : UpdateMissionProgress(1, partial)
    \/ UnlockNextMission
    \/ \E m \in MissionSamples : CompleteMission(m)
    \/ UseHint
    \/ AddTimeSpent(1)
    \/ GenerateProgressToken
    \/ \E token \in MalformedTokens : ParseProgressToken(token)
    \/ ParseProgressToken(tokenText)

SpecToken == InitToken /\ [][NextToken]_vars

----------------------------------------------------------------------------
(* SpecDash: the open instructor dashboard importing tokens, beside the players' tabs *)

InitDash == StoreInit /\ OrderIdle /\ RouteIdle /\ OutageIdle /\ TabsIdle /\ PipeIdle /\ LegacyIdle /\ TokenIdle /\ DashOpen /\ ExportIdle /\ ClassifyIdle /\ ReminderIdle /\ CacheIdle /\ JigsawIdle

NextDash ==
    \/ \E token \in ImportTokens : ImportToken(token)
    \/ \E token \in AddTokens, nameInput \in AddNames : HandleAddPlayer(token, nameInput)
    \/ \E p \in PlayerTabSamples : PlayerTabSave(p)
    \/ ClockTick

SpecDash == InitDash /\ [][NextDash]_vars

----------------------------------------------------------------------------
(* SpecPoll: the dashboard's polling timer through mounts, toggles and unmounts *)

InitPoll == StoreInit /\ OrderIdle /\ RouteIdle /\ OutageIdle /\ TabsIdle /\ PipeIdle /\ LegacyIdle /\ TokenIdle /\ DashIdle /\ ExportIdle /\ ClassifyIdle /\ ReminderIdle /\ CacheIdle /\ JigsawIdle

NextPoll ==
    \/ DashMount
    \/ ToggleAutoRefresh
    \/ DashUnmount
    \/ \E t \in 1..MaxTimers : PollFire(t)
    \/ \E p \in PlayerTabSamples : PlayerTabSave(p)
    \/ ClockTick

SpecPoll == InitPoll /\ [][NextPoll]_vars

----------------------------------------------------------------------------
(* SpecStart: players created through the difficulty screen and through the store *)

InitStart == StoreInit /\ OrderIdle /\ RouteInit /\ OutageIdle /\ TabsIdle /\ PipeIdle /\ LegacyIdle /\ TokenIdle /\ DashIdle /\ ExportIdle /\ ClassifyIdle /\ ReminderIdle /\ CacheIdle /\ JigsawIdle

NextStart ==
    \/ \E playerName \in StartNames, d \in DifficultySamples : HandleStartGame(playerName, d)
    \/ OpenDifficulty
    \/ \E name \in StartNames : CreatePlayer(name)
    \/ \E partial \in SubmissionPartials : UpdateMissionProgress(1, partial)
    \/ UnlockNextMission

SpecStart == InitStart /\ [][NextStart]_vars

----------------------------------------------------------------------------
(* SpecQuota: the store while localStorage comes and goes *)

InitQuota == StoreInit /\ OrderIdle /\ RouteIdle /\ OutageIdle /\ TabsIdle /\ PipeIdle /\ LegacyIdle /\ TokenIdle /\ DashIdle /\ ExportIdle /\ ClassifyIdle /\ ReminderIdle /\ CacheIdle /\ JigsawIdle

NextQuota ==
    \/ \E n \in NameSamples : CreatePlayer(n)
    \/ \E partial \in SubmissionPartials : UpdateMissionProgress(1, partial)
    \/ UnlockNextMission
    \/ StorageToggle

SpecQuota == InitQuota /\ [][NextQuota]_vars

----------------------------------------------------------------------------
(* SpecExport: exportProgress applied to the listed player *)

InitExport == StoreInit /\ OrderIdle /\ RouteIdle /\ OutageIdle /\ TabsIdle /\ PipeIdle /\ LegacyIdle /\ TokenIdle /\ ExportInit /\ ClassifyIdle /\ ReminderIdle /\ CacheIdle /\ JigsawIdle

NextExport ==
    \/ ExportProgress
    \/ ClockTick

SpecExport == InitExport /\ [][NextExport]_vars

----------------------------------------------------------------------------
(* SpecClassify: classify applied to the instructions in every casing and padding *)

InitClassify == StoreInit /\ OrderIdle /\ RouteIdle /\ OutageIdle /\ TabsIdle /\ PipeIdle /\ LegacyIdle /\ TokenIdle /\ DashIdle /\ ExportIdle /\ ClassifyInit /\ ReminderIdle /\ CacheIdle /\ JigsawIdle

NextClassify ==
    \/ ClassifyText

SpecClassify == InitClassify /\ [][NextClassify]_vars

----------------------------------------------------------------------------
(* SpecRoutes: the mission screens with the game routes opened by address *)

InitRoutes == StoreInit /\ OrderIdle /\ RouteInit /\ OutageIdle /\ TabsIdle /\ PipeIdle /\ LegacyIdle /\ TokenIdle /\ DashIdle /\ ExportIdle /\ ClassifyIdle /\ ReminderIdle /\ CacheIdle /\ JigsawIdle

NextRoutes ==
    \/ \E playerName \in StartNames, d \in DifficultySamples : HandleStartGame(playerName, d)
    \/ \E m \in RouteMissions : HandleMissionClick(m)
    \/ IntroStartGame
    \/ NavigateHome
    \/ \E m \in RouteMissions : OpenGameRoute(m)
    \/ \E dropped \in JigsawSubmissions, t \in 0..MaxTime : JigsawSubmit(dropped, t)
    \/ \E v \in DetectionSamples, t \in 0..MaxTime : LogDetectiveSubmit(v, t)

SpecRoutes == InitRoutes /\ [][NextRoutes]_vars

----------------------------------------------------------------------------
(* SpecReminder: TokenShareReminder beside the store; its timeouts fire *)

InitReminder == StoreInit /\ OrderIdle /\ RouteIdle /\ OutageIdle /\ TabsIdle /\ PipeIdle /\ LegacyIdle /\ TokenIdle /\ DashIdle /\ ExportIdle /\ ClassifyIdle /\ ReminderIdle /\ CacheIdle /\ JigsawIdle

NextReminder ==
    \/ \E n \in TokenNameSamples : ReminderPlayerCreated(n)
    \/ \E m \in MissionSamples, partial \in ReminderPartials : ReminderPlayerUpdated(m, partial)
    \/ ReminderFire
    \/ HandleCopy
    \/ CopyReset
    \/ Dismiss

SpecReminder ==
    InitReminder /\ [][NextReminder]_vars /\ WF_vars(ReminderFire) /\ WF_vars(CopyReset)

----------------------------------------------------------------------------
(* SpecCache: arranging the slots and applying optimizations in CacheCrash *)

InitCache == StoreInit /\ OrderIdle /\ RouteIdle /\ OutageIdle /\ TabsIdle /\ PipeIdle /\ LegacyIdle /\ TokenIdle /\ DashIdle /\ ExportIdle /\ ClassifyIdle /\ ReminderIdle /\ CacheInit /\ JigsawIdle

NextCache ==
    \/ \E item \in DropItems, index \in 1..MaxSlot : CacheCrashDrop(item, index)
    \/ \E index \in 1..MaxSlot : CacheCrashRemove(index)
    \/ \E optimization \in OptimizationNames : applyOptimization(optimization)

SpecCache == InitCache /\ [][NextCache]_vars

----------------------------------------------------------------------------
(* SpecJigsaw: dragging blocks into the slots of DockerfileJigsaw *)

InitJigsaw == StoreInit /\ OrderIdle /\ RouteIdle /\ OutageIdle /\ TabsIdle /\ PipeIdle /\ LegacyIdle /\ TokenIdle /\ DashIdle /\ ExportIdle /\ ClassifyIdle /\ ReminderIdle /\ CacheIdle /\ JigsawInit

NextJigsaw ==
    \/ \E item \in BlockIds, index \in 1..MaxSlots : JigsawDrop(item, index)
    \/ \E index \in 1..MaxSlots : JigsawRemove(index)

SpecJigsaw == InitJigsaw /\ [][NextJigsaw]_vars
----------------------------------------------------------------------------
(* Properties of the store, checked under Spec *)

HasPlayer == player # NoPlayer

\* C1: after createPlayer and any sequence of updateMissionProgress calls,
\* player.totalTimeSpent is the sum of timeSpent over the entries of
\* player.progress.
TotalTimeIsSumOfEntries ==
    HasPlayer => player.totalTimeSpent = SumTimeSpent(player.progress)

\* two missions were submitted, one of them again after a quiz-less first
\* submission, and time has accumulated on both
TotalTimeWitness ==
    /\ HasPlayer
    /\ Len(player.progress) = 2
    /\ \A i \in DOMAIN player.progress : player.progress[i].timeSpent = MaxTime
    /\ lastOp.op = "updateMissionProgress" /\ lastOp.existed /\ ~lastOp.quizOnly
    /\ player.totalTimeSpent = 2 * MaxTime

\* C2 (as claimed): for a fixed player id currentMission starts at 1, stays in
\* 1..6, never decreases under any store call, and only unlockNextMission
\* changes it.
CurrentMissionOnlyAdvances ==
    /\ [](HasPlayer => player.currentMission \in 1..MissionCount)
    /\ [][(~HasPlayer /\ HasPlayer') => player'.currentMission = 1]_vars
    /\ [][(HasPlayer /\ HasPlayer' /\ player'.id = player.id)
            => /\ player'.currentMission >= player.currentMission
               /\ (player'.currentMission # player.currentMission
                     => lastOp'.op = "unlockNextMission")]_vars

\* C5: updateMissionProgress(m, {quizScore}) on a mission that has an entry
\* changes the quizScore of that entry and nothing else of the player.
QuizScoreUpdateChangesOnlyQuizScore ==
    [][\A m \in MissionSamples, q \in QuizScoreSamples :
        (/\ HasPlayer
         /\ FindIndex(player.progress, m) > 0
         /\ UpdateMissionProgress(m, [quizScore |-> q]))
        => LET i == FindIndex(player.progress, m)
           IN  /\ DOMAIN player'.progress = DOMAIN player.progress
               /\ \A j \in DOMAIN player.progress :
                     j # i => player'.progress[j] = player.progress[j]
               /\ \A f \in {"missionId", "completed", "score", "timeSpent", "hintsUsed"} :
                     player'.progress[i][f] = player.progress[i][f]
               /\ player'.progress[i].quizScore = q
               /\ DOMAIN player'.progress[i] = DOMAIN player.progress[i] \cup {"quizScore"}
               /\ player'.currentMission = player.currentMission
               /\ player'.totalTimeSpent = player.totalTimeSpent
               /\ player'.id = player.id /\ player'.name = player.name
               /\ player'.difficulty = player.difficulty]_vars

\* a quiz score was just merged into a completed entry that carries time
QuizScoreUpdateWitness ==
    /\ HasPlayer
    /\ lastOp.op = "updateMissionProgress" /\ lastOp.existed /\ lastOp.quizOnly
    /\ \E i \in DOMAIN player.progress :
          /\ "quizScore" \in DOMAIN player.progress[i]
          /\ player.progress[i].completed
          /\ player.progress[i].timeSpent = MaxTime
          /\ player.progress[i].hintsUsed = HintsSample
    /\ Len(player.progress) = 2
    /\ player.currentMission > 1

\* C6: player.progress holds at most one entry per mission id.
OneEntryPerMission ==
    HasPlayer =>
        \A i, j \in DOMAIN player.progress :
            player.progress[i].missionId = player.progress[j].missionId => i = j

\* an update for a mission that already had an entry has just run
OneEntryWitness ==
    /\ HasPlayer
    /\ lastOp.op = "updateMissionProgress" /\ lastOp.existed
    /\ Len(player.progress) = Cardinality(MissionSamples)

\* C7: unlockNextMission sets currentMission to min(currentMission + 1, 6):
\* plus one below the ceiling, unchanged at 6.
UnlockAdvancesByOneUpToSix ==
    [][unlockNextMission =>
        player'.currentMission =
            IF player.currentMission < 6 THEN player.currentMission + 1 ELSE 6]_vars

\* unlockNextMission was called with currentMission already 6
UnlockAtCeilingWitness ==
    /\ HasPlayer
    /\ lastOp.op = "unlockNextMission" /\ lastOp.atCeiling
    /\ player.currentMission = 6

CreatePlayerRequiresName ==
    [][\A name \in StartNames :
        (CreatePlayer(name) \/ \E d \in DifficultySamples : HandleStartGame(name, d))
        => IF trim(name) = <<>>
           THEN UNCHANGED <<playerId, difficulty, player, shared>>
           ELSE /\ player'.id = playerId
                /\ player'.currentMission = 1
                /\ player'.progress = <<>>
                /\ player'.totalTimeSpent = 0]_vars

----------------------------------------------------------------------------
(* Properties of validateOrder, checked under SpecOrder *)

\* C10: validateOrder succeeds exactly when every index of the required order
\* holds the required category and no placed slot is null; the canonical
\* order of mission 1 succeeds with correctCount = total, and with its first
\* two entries swapped it fails with correctCount < total.
ValidateOrderSucceedsIffAllMatch ==
    ordStage = "validated" =>
        LET required == mapRequiredOrderToUUID(ordLabels)
        IN  /\ ordResult.success <=>
                 /\ \A i \in DOMAIN required :
                       i \in DOMAIN ordPlaced /\ ordPlaced[i] = required[i]
                 /\ \A j \in DOMAIN ordPlaced : ordPlaced[j] # Null
            /\ (ordPicked = CanonicalPicked /\ ordLabels = Mission1RequiredOrder)
                 => ordResult.success /\ ordResult.correctCount = ordResult.total
            /\ (ordPicked = SwappedPicked /\ ordLabels = Mission1RequiredOrder)
                 => ~ordResult.success /\ ordResult.correctCount < ordResult.total

\* the canonical order of mission 1 has been validated and passed
ValidateOrderWitness ==
    /\ ordStage = "validated"
    /\ ordPicked = CanonicalPicked
    /\ ordLabels = Mission1RequiredOrder
    /\ ordResult.success
    /\ ordResult.correctCount = 7

\* the positions of the required order whose placed category is the required one
MatchingPositions ==
    { i \in DOMAIN mapRequiredOrderToUUID(ordLabels) :
        i \in DOMAIN ordPlaced /\ ordPlaced[i] = mapRequiredOrderToUUID(ordLabels)[i] }

\* C11: the score of validateOrder is 20 per position whose placed category
\* equals the required one, plus 10 when no placed slot is null, clamped to
\* 0..100; the canonical sequence of the Dockerfile mission scores exactly 100.
ValidateOrderScore ==
    ordStage = "validated" =>
        LET raw == 20 * Cardinality(MatchingPositions)
                   + (IF \A j \in DOMAIN ordPlaced : ordPlaced[j] # Null THEN 10 ELSE 0)
        IN  /\ ordResult.score = (IF raw > 100 THEN 100 ELSE raw)
            /\ ordResult.score \in 0..100
            /\ (ordPicked = CanonicalPicked /\ ordLabels = Mission1RequiredOrder)
                  => ordResult.score = 100

\* the canonical sequence has been scored: its raw 150 points are clamped to 100
ValidateOrderScoreWitness ==
    /\ ordStage = "validated"
    /\ ordPicked = CanonicalPicked
    /\ ordLabels = Mission1RequiredOrder
    /\ ordResult.score = 100
    /\ 20 * Cardinality(MatchingPositions) = 140


\* C22: in any casing and with any surrounding whitespace, "COPY . ." and
\* "COPY ." classify to the same category, COPY_APP, and
\* "COPY requirements.txt ." classifies to COPY_REQS, never to COPY_APP
ClassifyNormalisesCopy ==
    clsCategory # Null =>
        /\ clsBase \in {"COPY_APP", "COPY_DOT"} => clsCategory = CATEGORY_UUID.COPY_APP
        /\ clsBase = "COPY_REQS" => /\ clsCategory = CATEGORY_UUID.COPY_REQS
                                     /\ clsCategory # CATEGORY_UUID.COPY_APP

\* "copy ." in lower case between spaces was classified
ClassifyNormalisesCopyWitness ==
    /\ clsBase = "COPY_DOT"
    /\ clsText = <<" ", " ", "c", "o", "p", "y", " ", ".", " ">>
    /\ clsCategory = CATEGORY_UUID.COPY_APP
----------------------------------------------------------------------------
(* Properties of the mission screens and of the shared item *)

\* C3 (as claimed): a progress entry is completed only if the validator of
\* its mission gave a success verdict on the submission that wrote the flag;
\* mission 6 is recorded completed only with a score at the threshold.
CompletedOnlyOnValidatorSuccess ==
    HasPlayer =>
        \A i \in DOMAIN player.progress :
            player.progress[i].completed =>
                verdict[player.progress[i].missionId] = "success"

\* C4 (as claimed): every mission below currentMission has a completed entry,
\* whatever the sequence of submissions, replays included.
MissionsUnlockSequentially ==
    HasPlayer =>
        \A m \in 1..(player.currentMission - 1) : HasCompleted(player, m)

\* C8 (as claimed): the entry of each tab's player in the shared item is the
\* player of that tab's latest completed save, under every interleaving of
\* the two tabs' getItem and setItem steps.
EntryReflectsOwnersLatestSave ==
    \A t \in Tabs :
        tabSaved[t] # NoPlayer =>
            /\ TabPlayerId[t] \in DOMAIN shared
            /\ shared[TabPlayerId[t]].player = JsonPlayer(tabSaved[t])


\* C23 (as claimed): progress is recorded only for unlocked missions: every
\* progress entry of the player is for a mission m <= currentMission,
\* whatever the sequence of navigation and play.
ProgressOnlyForUnlockedMissions ==
    HasPlayer =>
        \A i \in DOMAIN player.progress :
            player.progress[i].missionId <= player.currentMission

\* C25 (as claimed): completion is sticky: a progress entry that is completed
\* stays completed under every later step, a failed replay of the mission
\* included.
CompletionIsSticky ==
    [][(player # NoPlayer /\ player' # NoPlayer) =>
          \A i \in DOMAIN player.progress :
              player.progress[i].completed =>
                  /\ i \in DOMAIN player'.progress
                  /\ player'.progress[i].missionId = player.progress[i].missionId
                  /\ player'.progress[i].completed]_vars

\* C26 (as claimed): when the submission flow of a mission m < 6 has ended
\* (the game is over and no quiz is showing) and m is recorded completed,
\* the next mission is unlocked, on every path through the quiz.
CompletedMissionUnlocksNext ==
    (/\ HasPlayer
     /\ gamePage = "game"
     /\ gameCompleted
     /\ ~QuizShown
     /\ gameMission < MissionCount
     /\ HasCompleted(player, gameMission))
        => player.currentMission > gameMission

\* C30 (as claimed): the store's top-level mirrors agree with the player
\* record: completedMissions holds exactly the missions whose progress entry
\* is completed, and timeSpent equals player.totalTimeSpent.
MirrorsAgreeWithPlayer ==
    HasPlayer =>
        /\ { completedMissions[i] : i \in DOMAIN completedMissions }
              = { player.progress[i].missionId :
                      i \in { j \in DOMAIN player.progress : player.progress[j].completed } }
        /\ timeSpent = player.totalTimeSpent
----------------------------------------------------------------------------
(* Properties of the validators' scores *)

\* C12 (as claimed): every score a validator returns, and so every score
\* recorded in a progress entry, is a number within 0..100, also when the
\* simulation ends with no incident at all.
RecordedScoresWithinRange ==
    HasPlayer =>
        \A i \in DOMAIN player.progress :
            /\ player.progress[i].score # NaN
            /\ player.progress[i].score \in 0..100

\* job a depends on job b through a chain of at most n recorded edges
RECURSIVE DependsThrough(_, _, _, _)
DependsThrough(jobs, a, b, n) ==
    /\ n > 0
    /\ \E i \in DOMAIN jobs :
          /\ jobs[i].id = a
          /\ \/ b \in jobs[i].dependencies
             \/ \E c \in jobs[i].dependencies : DependsThrough(jobs, c, b, n - 1)

\* C13 (as claimed): the dependency check of the job-graph validator is
\* satisfied whenever the build job depends on the test job through any chain
\* of recorded edges, not only through a direct edge.
TransitiveDependencySatisfiesCheck ==
    (lastValidation # NoResult
       /\ DependsThrough(pipelineJobs, "job-build", "job-test", Len(pipelineJobs)))
    => lastValidation.properDependencies


\* the submitted result of mission 6 in the player record (Null before any)
OutageResult(p) ==
    IF \E i \in DOMAIN p.progress : p.progress[i].missionId = 6
    THEN LET e == p.progress[CHOOSE i \in DOMAIN p.progress : p.progress[i].missionId = 6]
         IN  [completed |-> e.completed, timeSpent |-> e.timeSpent, score |-> e.score]
    ELSE [completed |-> Null]

\* C27 (as claimed): the result of an Outage Simulator game is submitted at
\* most once: once the game is over (by the timeout or by a successful
\* strategy) no later step writes the submitted result again.
OutageResultSubmittedOnce ==
    [][(OutageMounted /\ gameCompleted) => OutageResult(player') = OutageResult(player)]_vars
----------------------------------------------------------------------------
(* Claims about progress tokens *)

CarriedFields == {"playerId", "difficulty", "completedMissions", "hintsUsed",
                  "timeSpent", "player"}

Carried(data) == [f \in CarriedFields |-> data[f]]

\* C14: for every store state generateProgressToken gives a token, and
\* parseProgressToken of that token returns the carried fields (playerId,
\* difficulty, completedMissions, hintsUsed, timeSpent and the embedded
\* player) with the values the store had when the token was generated
TokenRoundTrip ==
    tokenOf # NoToken =>
        /\ tokenText # Threw
        /\ parsedFrom = tokenText =>
              /\ tokenData # NullData
              /\ Carried(tokenData) = Carried(tokenOf)

\* C15: parseProgressToken never throws; given a string that is not
\* base64-encoded JSON it returns null; and no call changes the store
ParseNeverThrows ==
    [][\A token \in MalformedTokens \cup {tokenText} :
        ParseProgressToken(token)
        => /\ tokenData' # Threw
           /\ token \in MalformedTokens => tokenData' = NullData
           /\ UNCHANGED <<playerId, difficulty, player, shared, legacyVars>>]_vars

\* garbage was parsed while a player with progress was playing
ParseNeverThrowsWitness ==
    /\ parsedFrom \in MalformedTokens
    /\ tokenData = NullData
    /\ HasPlayer
    /\ player.progress # <<>>
----------------------------------------------------------------------------
(* Claims about the instructor dashboard *)

\* tokens that are not base64, not JSON, or decode to data without a player id
RejectedTokens == {NotBase64, NotJson, NoIdToken, NullJsonToken}

\* the player id each well-formed token carries
TokenPlayerId(token) == IF token = LegacyToken THEN "p1" ELSE "p2"

\* C16: importToken with a malformed token (not base64, not JSON, or data
\* without a player id) reports an error and leaves the shared item as it
\* was; with a valid token it adds or replaces exactly the entry keyed by the
\* token's player id and leaves every other entry as it was
ImportTokenUpsertsOrRejects ==
    [][\A token \in ImportTokens :
        ImportToken(token)
        => IF token \in RejectedTokens
           THEN /\ dashAlert' = InvalidTokenAlert
                /\ shared' = shared
           ELSE LET id == TokenPlayerId(token)
                IN  /\ dashAlert' # InvalidTokenAlert
                    /\ DOMAIN shared' = DOMAIN shared \cup {id}
                    /\ shared'[id].player.id = id
                    /\ shared'[id].lastUpdate = now
                    /\ \A k \in DOMAIN shared \ {id} : shared'[k] = shared[k]]_vars

\* a token replaced the entry of a player while another player's entry was there
ImportTokenWitness ==
    /\ dashOp = [op |-> "importToken", token |-> FullToken]
    /\ DOMAIN shared = {"p2", "p3"}
    /\ shared["p2"].player.currentMission = 2
    /\ sharedKeys = <<"p2", "p3">>
    /\ dashAlert = ImportedAlert(NameAda)

CompletedEntries(p) == {i \in DOMAIN p.progress : p.progress[i].completed}

\* C17: after a token with a playerId, completedMissions = [1, 2] and no
\* embedded player is imported, the dashboard lists a record of that player
\* with currentMission 3 and exactly two progress entries marked completed
LegacyImportRebuildsProgress ==
    /\ (dashOp = [op |-> "importToken", token |-> LegacyToken])
          => \E i \in DOMAIN trackedPlayers :
                /\ trackedPlayers[i].id = "p1"
                /\ trackedPlayers[i].currentMission = 3
                /\ Cardinality(CompletedEntries(trackedPlayers[i])) = 2
    /\ (dashOp = [op |-> "handleAddPlayer", token |-> LegacyToken])
          => \E i \in DOMAIN addedPlayers :
                /\ addedPlayers[i].id = "p1"
                /\ addedPlayers[i].currentMission = 3
                /\ Cardinality(CompletedEntries(addedPlayers[i])) = 2

\* C19: with auto-refresh off or the dashboard unmounted no polling timer is
\* left and no poll fires; at most one polling timer is ever active
PollingTimerIsCleared ==
    /\ [](Cardinality(pollTimers) <= 1)
    /\ []((~dashMounted \/ ~autoRefresh) => pollTimers = {})
    /\ [][(\E t \in 1..MaxTimers : PollFire(t)) => (dashMounted /\ autoRefresh)]_vars

\* auto-refresh was switched off, on and off again, and the list had been polled
PollingTimerWitness ==
    /\ dashMounted
    /\ ~autoRefresh
    /\ nextTimer = 3
    /\ pollTimers = {}
    /\ trackedPlayers # <<>>
----------------------------------------------------------------------------
(* Claims about the CSV export *)

\* the quiz scores the missions of a player reported
ReportedQuizScores(p) == {i \in DOMAIN p.progress : "quizScore" \in DOMAIN p.progress[i]}

\* C21: in every exported row the average score and the average quiz score
\* are defined numbers (no division by zero); the Avg Quiz % cell is empty
\* exactly when no mission reported a quiz score, and otherwise holds the
\* rounded mean of the reported quiz scores
ExportAveragesDefined ==
    csvData.exported =>
        \A i \in DOMAIN csvData.rows :
            LET p == trackedPlayers[i]
                reported == ReportedQuizScores(p)
            IN  /\ csvData.rows[i].avgScore \in 0..100
                /\ (csvData.rows[i].avgQuizScore = EmptyCell) <=> (reported = {})
                /\ reported # {} =>
                      csvData.rows[i].avgQuizScore =
                          RoundDiv(SumOver(WithQuizScore(p.progress), "quizScore"),
                                   Cardinality(reported))
----------------------------------------------------------------------------
(* Properties of TokenShareReminder *)

\* C24 (as claimed): while a player exists the reminder recurs: whenever it
\* has been dismissed and is hidden, it eventually becomes visible again,
\* the timeouts firing and nothing else having to happen to the player.
ReminderRecurs ==
    [](player # NoPlayer /\ remDismissed > 0 /\ ~remVisible => <>remVisible)
----------------------------------------------------------------------------
(* Properties of the CacheCrash metrics and of the jigsaw slots *)

\* C28 (as claimed): after every handleDrop, handleRemove and
\* applyOptimization, buildTime and imageSize are the values determined by
\* the current slots and the current applied optimizations.
MetricsFollowArrangement ==
    /\ buildTime = updateBuildMetrics(droppedInstructions, appliedOptimizations).buildTime
    /\ imageSize = updateBuildMetrics(droppedInstructions, appliedOptimizations).imageSize

Places(block) ==
    Cardinality({ i \in DOMAIN availableBlocks : availableBlocks[i] = block })
        + Cardinality({ i \in DOMAIN droppedBlocks : droppedBlocks[i] = block })

\* C29 (as claimed): after any sequence of drops and removals every block of
\* the mission is in exactly one place: the available list or one slot.
EveryBlockInOnePlace ==
    \A block \in BlockIds : Places(block) = 1
====
